---- MODULE Spec2Model ----
(***************************************************************************)
(* N-person earliest-meeting search over a GTFS feed                       *)
(* (src/find_meetingpoint.py), specification Spec, and the feed filters    *)
(* (src/utils), specification FilterSpec.                                  *)
(*                                                                         *)
(* Times are seconds from midnight.  A missing (NaN / None) value is NA.   *)
(* Platforms lie on one meridian; a latitude is an integer number of       *)
(* millidegrees, so the great-circle distance of two platforms is          *)
(* R * dphi, kept in millimetres.                                          *)
(***************************************************************************)
EXTENDS Integers, Sequences, FiniteSets, TLC

\* ------------------------------------------------------------------ bounds

\* Number of travellers in people_inputs.
NumPersons == 2

\* Longest path (in edges) enumerated by the reference path enumeration.
MaxPathLen == 4

\* ------------------------------------------------------------- primitives

NA == -1

Max(a, b) == IF a >= b THEN a ELSE b

CeilDiv(a, b) == IF a % b = 0 THEN a \div b ELSE (a \div b) + 1

Abs(a) == IF a < 0 THEN 0 - a ELSE a

\* to_seconds on a well-formed H+:MM:SS triple.
to_seconds(h, m, s) == h * 3600 + m * 60 + s

\* ======= CONFIG =======
WALK_SPEED_MM_PER_S == 1300
MAX_WALK_TIME_S == 10 * 60
DEFAULT_MAX_TRIP_TIME_S == 2 * 60 * 60
PROGRESS_STEP_S == 10 * 60
T0 == to_seconds(13, 0, 0)
MAX_WALK_RADIUS_MM == WALK_SPEED_MM_PER_S * MAX_WALK_TIME_S

Labels == <<"A", "B", "C", "D">>
Persons == 1..NumPersons

\* Python's order on the platform identifiers used by the feeds below.
StopOrder == <<"A1", "A2", "C1", "N1", "Q1", "S1", "X1", "X2", "X3">>
StopRank(s) == CHOOSE i \in 1..Len(StopOrder) : StopOrder[i] = s

\* The same for the trip identifiers.
TripOrder == <<"T1", "T2", "T3", "T4", "T5", "T6", "T7", "T8">>
TripRank(t) == CHOOSE i \in 1..Len(TripOrder) : TripOrder[i] = t

\* Strings that the program searches or compares are sequences of characters.
\* The characters in use, in the order of their code points.
CharOrder == <<" ", "1", "2", "3", "A", "C", "N", "S", "X", "Z",
               "a", "c", "n", "o", "s", "x", "z">>
CharRank(c) == CHOOSE i \in 1..Len(CharOrder) : CharOrder[i] = c

UpperChars == <<"A", "C", "N", "S", "X", "Z">>
LowerChars == <<"a", "c", "n", "s", "x", "z">>
Lower(c) ==
    IF \E i \in 1..Len(UpperChars) : UpperChars[i] = c
    THEN LowerChars[CHOOSE i \in 1..Len(UpperChars) : UpperChars[i] = c]
    ELSE c

\* Python's order on str.
RECURSIVE StrLess(_, _)
StrLess(a, b) ==
    IF b = <<>> THEN FALSE
    ELSE IF a = <<>> THEN TRUE
    ELSE IF Head(a) # Head(b) THEN CharRank(Head(a)) < CharRank(Head(b))
    ELSE StrLess(Tail(a), Tail(b))

\* Series.str.contains(re.escape(q), case=False) on one value.
Contains(name, q) ==
    \E i \in 1..(Len(name) - Len(q) + 1) :
        \A j \in 1..Len(q) : Lower(name[i + j - 1]) = Lower(q[j])

\* The characters of the identifiers, which serve as names as well.
Chars(id) ==
    CASE id = "X1" -> <<"X", "1">>
      [] id = "X2" -> <<"X", "2">>
      [] id = "X3" -> <<"X", "3">>
      [] id = "A1" -> <<"A", "1">>
      [] id = "A2" -> <<"A", "2">>
      [] id = "C1" -> <<"C", "1">>
      [] id = "N1" -> <<"N", "1">>
      [] id = "S1" -> <<"S", "1">>
      [] id = "X" -> <<"X">>

\* Stable sort of a sequence of <<key, value>> pairs by key (ascending), as
\* DataFrame.sort_values orders the rows of the small tables used here.
RECURSIVE InsertPair(_, _)
InsertPair(p, sorted) ==
    IF sorted = <<>> THEN <<p>>
    ELSE IF p[1] < Head(sorted)[1] THEN <<p>> \o sorted
    ELSE <<Head(sorted)>> \o InsertPair(p, Tail(sorted))

RECURSIVE SortPairs(_)
SortPairs(seq) ==
    IF seq = <<>> THEN <<>>
    ELSE LET n == Len(seq)
         IN InsertPair(seq[n], SortPairs(SubSeq(seq, 1, n - 1)))

Values(pairs) == [i \in 1..Len(pairs) |-> pairs[i][2]]

RECURSIVE Flatten(_)
Flatten(seqs) == IF seqs = <<>> THEN <<>> ELSE Head(seqs) \o Flatten(Tail(seqs))

Range(seq) == {seq[i] : i \in 1..Len(seq)}

\* ------------------------------------------------------------ feed tables
\* A feed is a record of the rows read from the GTFS files, in file order:
\*   stops      : <<[stop_id, stop_lat, parent_station, stop_name, stop_desc]>>
\*                (stop_lat in millidegrees; a name is the sequence of its
\*                characters, and <<>> is a missing one)
\*   pathways   : <<[from_stop_id, to_stop_id, traversal_time]>>
\*   transfers  : <<[from_stop_id, to_stop_id, min_transfer_time]>>
\*   stop_times : <<[trip_id, stop_id, stop_sequence, arr_sec, dep_sec]>>

StopRow(id, lat, parent, name) ==
    [stop_id |-> id, stop_lat |-> lat, parent_station |-> parent,
     stop_name |-> name, stop_desc |-> <<>>]
PathwayRow(fr, to, t) == [from_stop_id |-> fr, to_stop_id |-> to, traversal_time |-> t]
TransferRow(fr, to, t) == [from_stop_id |-> fr, to_stop_id |-> to, min_transfer_time |-> t]
StopTimeRow(trip, seq, stop, arr, dep) ==
    [trip_id |-> trip, stop_sequence |-> seq, stop_id |-> stop, arr_sec |-> arr, dep_sec |-> dep]

StopIds(f) == {f.stops[i].stop_id : i \in 1..Len(f.stops)}
TripIds(f) == {f.stop_times[i].trip_id : i \in 1..Len(f.stop_times)}

\* Every platform identifier of the feed: the rows of stops and the
\* identifiers that stop_times, pathways and transfers refer to.
PlatformIds(f) ==
    StopIds(f)
    \cup {r.stop_id : r \in Range(f.stop_times)}
    \cup {r.from_stop_id : r \in Range(f.pathways) \cup Range(f.transfers)}
    \cup {r.to_stop_id : r \in Range(f.pathways) \cup Range(f.transfers)}

MIN_WALK_S == 30

\* ---- Maps ----
\* The tables the program builds once from the feed and only reads afterwards.
VARIABLES
    feed,            \* the GTFS tables as read
    stop_lat,        \* stop_id -> latitude
    rows_at_stop,    \* stop_id -> its stop_times rows by ascending dep_sec
    trip_groups,     \* trip_id -> its stop_times rows by ascending stop_sequence
    walk_edges,      \* from_stop -> <<[to_stop, ttime, source]>>
    provided_pairs,  \* the ordered pairs with a pathway or a transfer
    grid,            \* cell -> the platforms bucketed in it
    station_to_platforms, \* station_id -> its platforms, in the order of stops
    stationid_to_name     \* station_id -> station_name

\* stop_times after sort_values(["trip_id", "stop_sequence"]).
SortedStopTimes(f) ==
    LET st == f.stop_times
    IN Values(SortPairs([i \in 1..Len(st) |->
                 <<TripRank(st[i].trip_id) * 1000 + st[i].stop_sequence, st[i]>>]))

\* stations_df["station_id"]: parent_station, or the stop's own id without one.
StationOf(row) == IF row.parent_station = "" THEN row.stop_id ELSE row.parent_station

BuildStationToPlatforms(f) ==
    [station \in {StationOf(f.stops[i]) : i \in 1..Len(f.stops)} |->
        LET rows == SelectSeq(f.stops, LAMBDA r : StationOf(r) = station)
        IN [i \in 1..Len(rows) |-> rows[i].stop_id]]

\* best_name(g) for the rows g of one station: the values that value_counts
\* may put first (the most frequent of the pooled stop_desc and stop_name
\* values; the order of equally frequent values is not specified), or the
\* first stop_id when there is no value.
best_name(g, idstr) ==
    LET cands == SelectSeq([i \in 1..Len(g) |-> g[i].stop_desc]
                           \o [i \in 1..Len(g) |-> g[i].stop_name],
                           LAMBDA v : v # <<>>)
        Count(v) == Cardinality({i \in 1..Len(cands) : cands[i] = v})
    IN IF cands = <<>> THEN {idstr}
       ELSE {v \in Range(cands) : \A w \in Range(cands) : Count(w) <= Count(v)}

\* stationid_to_name: one of the names best_name may return, per station.
BuildStationNames(f) ==
    LET stations == {StationOf(f.stops[i]) : i \in 1..Len(f.stops)}
        Group(st) == SelectSeq(f.stops, LAMBDA r : StationOf(r) = st)
    IN {n \in [stations -> UNION {best_name(Group(st), Chars(Group(st)[1].stop_id)) :
                                     st \in stations}] :
           \A st \in stations : n[st] \in best_name(Group(st), Chars(Group(st)[1].stop_id))}

BuildStopLat(f) ==
    [sid \in StopIds(f) |-> (CHOOSE r \in Range(f.stops) : r.stop_id = sid).stop_lat]

\* rows_at_stop[sid]: the rows at sid by ascending dep_sec, rows without a
\* departure last.
BuildRowsAtStop(f) ==
    [sid \in StopIds(f) |->
        LET here == SelectSeq(SortedStopTimes(f), LAMBDA r : r.stop_id = sid)
            timed == SelectSeq(here, LAMBDA r : r.dep_sec # NA)
            untimed == SelectSeq(here, LAMBDA r : r.dep_sec = NA)
        IN Values(SortPairs([i \in 1..Len(timed) |-> <<timed[i].dep_sec, timed[i]>>]))
           \o untimed]

\* trip_groups.get_group(trip_id): the trip's rows, which the sort has put in
\* ascending stop_sequence.
BuildTripGroups(f) ==
    [trip_id \in TripIds(f) |->
        SelectSeq(SortedStopTimes(f), LAMBDA r : r.trip_id = trip_id)]

\* ---- Walk edges ----
\* walk_edges.get(fr, []): the pathway rows, then the transfer rows, that
\* leave fr and carry a time, each floored at 30 s.
BuildWalkEdges(f) ==
    [fr \in PlatformIds(f) |->
        LET pw == SelectSeq(f.pathways,
                            LAMBDA r : r.from_stop_id = fr /\ r.traversal_time # NA)
            tr == SelectSeq(f.transfers,
                            LAMBDA r : r.from_stop_id = fr /\ r.min_transfer_time # NA)
        IN [i \in 1..Len(pw) |-> [to_stop |-> pw[i].to_stop_id,
                                  ttime |-> Max(MIN_WALK_S, pw[i].traversal_time),
                                  source |-> "PATHWAYS"]]
           \o
           [i \in 1..Len(tr) |-> [to_stop |-> tr[i].to_stop_id,
                                  ttime |-> Max(MIN_WALK_S, tr[i].min_transfer_time),
                                  source |-> "TRANSFERS"]]]

\* Mutant of BuildProvidedPairs: the pairs are stored as (to, from).
BuildProvidedPairs_Reversed(f) ==
    {<<r.to_stop_id, r.from_stop_id>> :
        r \in {x \in Range(f.pathways) : x.traversal_time # NA}}
    \cup
    {<<r.to_stop_id, r.from_stop_id>> :
        r \in {x \in Range(f.transfers) : x.min_transfer_time # NA}}

BuildProvidedPairs(f) ==
    {<<r.from_stop_id, r.to_stop_id>> :
        r \in {x \in Range(f.pathways) : x.traversal_time # NA}}
    \cup
    {<<r.from_stop_id, r.to_stop_id>> :
        r \in {x \in Range(f.transfers) : x.min_transfer_time # NA}}

\* ---- Spatial index ----
\* Every platform has the same longitude, so a cell is its row number.
DLAT_MDEG == 4
MM_PER_MDEG_LAT == 111320
HAVERSINE_MM_PER_MDEG == 111195

cell_for(lat) == lat \div DLAT_MDEG

BuildGrid(f) ==
    [cell \in {cell_for(f.stops[i].stop_lat) : i \in 1..Len(f.stops)} |->
        LET rows == SelectSeq(f.stops, LAMBDA r : cell_for(r.stop_lat) = cell)
        IN [i \in 1..Len(rows) |-> rows[i].stop_id]]

\* Great-circle distance of two points of one meridian, in millimetres.
haversine_mm(lat1, lat2) == HAVERSINE_MM_PER_MDEG * Abs(lat2 - lat1)

\* The candidates of the cells within nlat rows of the query's cell, in the
\* order of the cell loop, the query platform left out, each with its distance
\* (a platform lies in one cell, so none is met twice).
\* Mutant of nearby_stops_within_radius: the platform asked for is a candidate.
nearby_stops_within_radius_Self(stop_id, radius_mm) ==
    LET lat0 == stop_lat[stop_id]
        c0 == cell_for(lat0)
        nlat == CeilDiv(radius_mm, MM_PER_MDEG_LAT * DLAT_MDEG) + 1
        InCell(k) ==
            LET cell == c0 - nlat + (k - 1)
            IN IF cell \in DOMAIN grid THEN grid[cell] ELSE <<>>
        cands == Flatten([k \in 1..(2 * nlat + 1) |-> InCell(k)])
    IN [i \in 1..Len(cands) |->
           [cand |-> cands[i], dist_mm |-> haversine_mm(lat0, stop_lat[cands[i]])]]

nearby_stops_within_radius(stop_id, radius_mm) ==
    LET lat0 == stop_lat[stop_id]
        c0 == cell_for(lat0)
        nlat == CeilDiv(radius_mm, MM_PER_MDEG_LAT * DLAT_MDEG) + 1
        InCell(k) ==
            LET cell == c0 - nlat + (k - 1)
            IN IF cell \in DOMAIN grid
               THEN SelectSeq(grid[cell], LAMBDA cand : cand # stop_id)
               ELSE <<>>
        cands == Flatten([k \in 1..(2 * nlat + 1) |-> InCell(k)])
    IN [i \in 1..Len(cands) |->
           [cand |-> cands[i], dist_mm |-> haversine_mm(lat0, stop_lat[cands[i]])]]

\* ---- Search machinery ----
\* A frontier is the set of its entries; an entry is
\* [accum, arr_time, dest_stop, counter, info].

Info(owner, mode, source, from, to, walk, wait, ride, dep, arr, trip) ==
    [owner |-> owner, mode |-> mode, source |-> source, from_stop |-> from,
     to_stop |-> to, walk_sec |-> walk, wait_sec |-> wait, ride_sec |-> ride,
     depart_sec |-> dep, arrive_sec |-> arr, trip_id |-> trip]

\* Mutant of heappush_entry: the counter is never advanced.
heappush_entry_SameCounter(h, priority_tuple, payload_dict) ==
    [pq |-> h.pq \cup {[accum |-> priority_tuple[1], arr_time |-> priority_tuple[2],
                        dest_stop |-> priority_tuple[3], counter |-> h.counter,
                        info |-> payload_dict]},
     counter |-> h.counter]

\* heappush_entry over the pair [pq, counter].
heappush_entry(h, priority_tuple, payload_dict) ==
    [pq |-> h.pq \cup {[accum |-> priority_tuple[1], arr_time |-> priority_tuple[2],
                        dest_stop |-> priority_tuple[3], counter |-> h.counter + 1,
                        info |-> payload_dict]},
     counter |-> h.counter + 1]

\* The pushes of one enqueue_* call: a sequence of [prio, info], in push order.
PathwayTransferPushes(cur_stop, cur_time, accum_time, owner) ==
    LET es == walk_edges[cur_stop]
    IN [i \in 1..Len(es) |->
          [prio |-> <<accum_time + es[i].ttime, cur_time + es[i].ttime, es[i].to_stop>>,
           info |-> Info(owner, "WALK", es[i].source, cur_stop, es[i].to_stop,
                         es[i].ttime, 0, 0, cur_time, cur_time + es[i].ttime, "")]]

\* Mutant of GeoTime: the floor of 30 s is missing.
GeoTime_NoFloor(dist_mm) == CeilDiv(dist_mm, WALK_SPEED_MM_PER_S)

GeoTime(dist_mm) == Max(MIN_WALK_S, CeilDiv(dist_mm, WALK_SPEED_MM_PER_S))

GeoPushes(cur_stop, cur_time, accum_time, owner) ==
    LET near == nearby_stops_within_radius(cur_stop, MAX_WALK_RADIUS_MM)
        kept == SelectSeq(near,
                    LAMBDA c : /\ ~(c.dist_mm > MAX_WALK_RADIUS_MM)
                               /\ <<cur_stop, c.cand>> \notin provided_pairs
                               /\ GeoTime(c.dist_mm) <= MAX_WALK_TIME_S)
    IN [i \in 1..Len(kept) |->
          LET ttime == GeoTime(kept[i].dist_mm)
          IN [prio |-> <<accum_time + ttime, cur_time + ttime, kept[i].cand>>,
              info |-> Info(owner, "WALK", "GEO", cur_stop, kept[i].cand,
                            ttime, 0, 0, cur_time, cur_time + ttime, "")]]

\* Mutant of RidePushes: departures before cur_time are boarded too.
RidePushes_Past(cur_stop, cur_time, accum_time, owner) ==
    LET grp == rows_at_stop[cur_stop]
        g == SelectSeq(grp, LAMBDA r : r.dep_sec # NA)
        FromRow(dep_row) ==
            LET dep_time == dep_row.dep_sec
                wait == dep_time - cur_time
                after == SelectSeq(trip_groups[dep_row.trip_id],
                            LAMBDA r : r.stop_sequence > dep_row.stop_sequence)
                ends == SelectSeq(after, LAMBDA r : r.arr_sec # NA)
            IN [i \in 1..Len(ends) |->
                  LET arr_time == ends[i].arr_sec
                      ride == arr_time - dep_time
                      total == wait + ride
                  IN [prio |-> <<accum_time + total, arr_time, ends[i].stop_id>>,
                      info |-> Info(owner, "RIDE", "", cur_stop, ends[i].stop_id,
                                    0, wait, ride, dep_time, arr_time,
                                    dep_row.trip_id)]]
    IN Flatten([i \in 1..Len(g) |-> FromRow(g[i])])

\* Mutant of RidePushes: rows without an arrival are not skipped.
RidePushes_AnyRow(cur_stop, cur_time, accum_time, owner) ==
    LET grp == rows_at_stop[cur_stop]
        g == SelectSeq(grp, LAMBDA r : r.dep_sec # NA /\ r.dep_sec >= cur_time)
        FromRow(dep_row) ==
            LET dep_time == dep_row.dep_sec
                wait == dep_time - cur_time
                ends == SelectSeq(trip_groups[dep_row.trip_id],
                            LAMBDA r : r.stop_sequence > dep_row.stop_sequence)
            IN [i \in 1..Len(ends) |->
                  LET arr_time == ends[i].arr_sec
                      ride == arr_time - dep_time
                      total == wait + ride
                  IN [prio |-> <<accum_time + total, arr_time, ends[i].stop_id>>,
                      info |-> Info(owner, "RIDE", "", cur_stop, ends[i].stop_id,
                                    0, wait, ride, dep_time, arr_time,
                                    dep_row.trip_id)]]
    IN Flatten([i \in 1..Len(g) |-> FromRow(g[i])])

RidePushes(cur_stop, cur_time, accum_time, owner) ==
    LET grp == rows_at_stop[cur_stop]
        g == SelectSeq(grp, LAMBDA r : r.dep_sec # NA /\ r.dep_sec >= cur_time)
        FromRow(dep_row) ==
            LET dep_time == dep_row.dep_sec
                wait == dep_time - cur_time
                after == SelectSeq(trip_groups[dep_row.trip_id],
                            LAMBDA r : r.stop_sequence > dep_row.stop_sequence)
                ends == SelectSeq(after, LAMBDA r : r.arr_sec # NA)
            IN [i \in 1..Len(ends) |->
                  LET arr_time == ends[i].arr_sec
                      ride == arr_time - dep_time
                      total == wait + ride
                  IN [prio |-> <<accum_time + total, arr_time, ends[i].stop_id>>,
                      info |-> Info(owner, "RIDE", "", cur_stop, ends[i].stop_id,
                                    0, wait, ride, dep_time, arr_time,
                                    dep_row.trip_id)]]
    IN Flatten([i \in 1..Len(g) |-> FromRow(g[i])])

\* heappush_entry for each push of the sequence, in order.  The heap after a
\* push is bound through a singleton set, which makes it a value computed once.
RECURSIVE PushFrom(_, _, _)
PushFrom(h, pushes, i) ==
    IF i > Len(pushes) THEN h
    ELSE CHOOSE r \in {PushFrom(h1, pushes, i + 1) :
                          h1 \in {heappush_entry(h, pushes[i].prio, pushes[i].info)}} : TRUE

PushAll(h, pushes) ==
    CHOOSE r \in {PushFrom(h0, ps, 1) : h0 \in {h}, ps \in {pushes}} : TRUE

enqueue_pathway_transfer_walks(h, cur_stop, cur_time, accum_time, owner) ==
    PushAll(h, PathwayTransferPushes(cur_stop, cur_time, accum_time, owner))

enqueue_geo_walks(h, cur_stop, cur_time, accum_time, owner) ==
    PushAll(h, GeoPushes(cur_stop, cur_time, accum_time, owner))

enqueue_rides(h, cur_stop, cur_time, accum_time, owner) ==
    PushAll(h, RidePushes(cur_stop, cur_time, accum_time, owner))

\* The three enqueue calls made on a platform, in the order of the code.
Expand(h, cur_stop, cur_time, accum_time, owner) ==
    enqueue_rides(
        enqueue_geo_walks(
            enqueue_pathway_transfer_walks(h, cur_stop, cur_time, accum_time, owner),
            cur_stop, cur_time, accum_time, owner),
        cur_stop, cur_time, accum_time, owner)

\* ------------------------------------------------------------------ feeds
\* Latitudes (millidegrees).  X1, X2, X3 are 111 m apart in a line (an 86 s
\* walk, 172 s from X1 to X3), as are A1, A2; C1, N1 and S1 are out of walking
\* range of every other platform.
LatOf(sid) ==
    CASE sid = "X1" -> 52520
      [] sid = "X2" -> 52521
      [] sid = "X3" -> 52522
      [] sid = "A1" -> 52520
      [] sid = "A2" -> 52521
      [] sid = "C1" -> 52560
      [] sid = "N1" -> 52600
      [] sid = "S1" -> 52480

\* Platforms without parent_station: each is a station of its own, named as
\* its identifier.
StopsOf(ids) ==
    [i \in 1..Len(ids) |-> StopRow(ids[i], LatOf(ids[i]), "", Chars(ids[i]))]

\* Platforms that are the children of one station and carry its name.
StopsIn(ids, station) ==
    [i \in 1..Len(ids) |-> StopRow(ids[i], LatOf(ids[i]), station, Chars(station))]

MkFeed(name, ids, pw, tr, st) ==
    [name |-> name, stops |-> StopsOf(ids), pathways |-> pw, transfers |-> tr,
     stop_times |-> st]

\* Scenario S1: one platform, no departures.
FeedS1 == MkFeed("S1", <<"X1">>, <<>>, <<>>, <<>>)

\* Scenario S2 and its variants: X1 and X2 in walking range, with an optional
\* pathways table pw and an optional transfer X2 -> X1.
FeedWalk(pw, withTransfer) ==
    MkFeed("Walk", <<"X1", "X2">>, pw,
           IF withTransfer THEN <<TransferRow("X2", "X1", 60)>> ELSE <<>>,
           <<>>)

\* Scenario S5: A1 and A2 in walking range (86 s as the crow flies) and a
\* pathway A1 -> A2 of 120 s.
FeedS5 == MkFeed("S5", <<"A1", "A2">>, <<PathwayRow("A1", "A2", 120)>>, <<>>, <<>>)

\* Two platforms at one spot, with a transfer A1 -> X1 of 5 s.
FeedSameSpot ==
    MkFeed("SameSpot", <<"X1", "A1">>, <<>>, <<TransferRow("A1", "X1", 5)>>, <<>>)

\* Station X with the platforms X2 and X1, in this order, and the platform C1.
\* Trip T1 leaves X1 at d1 and trip T2 leaves X2 at d2, both for C1, and trip
\* T3 has left X2 before T0.
FeedStation(d1, d2) ==
    [MkFeed("Station", <<"C1">>, <<>>, <<>>,
            <<StopTimeRow("T1", 1, "X1", d1, d1),
              StopTimeRow("T1", 2, "C1", T0 + 1200, T0 + 1200),
              StopTimeRow("T2", 1, "X2", d2, d2),
              StopTimeRow("T2", 2, "C1", T0 + 1500, T0 + 1500),
              StopTimeRow("T3", 1, "X2", T0 - 300, T0 - 300),
              StopTimeRow("T3", 2, "C1", T0 + 600, T0 + 600)>>)
     EXCEPT !.stops = StopsIn(<<"X2", "X1">>, "X") \o StopsOf(<<"C1">>)]

\* A trip that leaves X1 at T0 and is at the next platform within the same
\* second (times given to the minute).
FeedZeroRide(to) ==
    MkFeed("ZeroRide", <<"X1", to>>, <<>>, <<>>,
           <<StopTimeRow("T1", 1, "X1", T0, T0),
             StopTimeRow("T1", 2, to, T0, T0)>>)

\* A feed that refers to a platform Q1 without a row in stops.txt: by a
\* pathway, by a transfer or by a stop_times row.  Q1 has a pathway of its own
\* to X2.
FeedDangling(kind) ==
    MkFeed("Dangling", <<"X1", "X2">>,
           <<PathwayRow("Q1", "X2", 45)>>
           \o (IF kind = "pathway" THEN <<PathwayRow("X1", "Q1", 40)>> ELSE <<>>),
           IF kind = "transfer" THEN <<TransferRow("X1", "Q1", 40)>> ELSE <<>>,
           IF kind = "ride"
           THEN <<StopTimeRow("T1", 1, "X1", T0 + 10, T0 + 10),
                  StopTimeRow("T1", 2, "Q1", T0 + 40, T0 + 40)>>
           ELSE <<>>)

\* Scenario S3 and its variants: trip T1 leaves N1 at T0 + dA and reaches C1
\* ten minutes later; trip T2 leaves S1 at T0 + dB and reaches C1 thirteen
\* minutes later.
FeedRide(dA, dB) ==
    MkFeed("Ride", <<"N1", "S1", "C1">>, <<>>, <<>>,
           <<StopTimeRow("T1", 1, "N1", T0 + dA, T0 + dA),
             StopTimeRow("T1", 2, "C1", T0 + dA + 600, T0 + dA + 600),
             StopTimeRow("T2", 1, "S1", T0 + dB, T0 + dB),
             StopTimeRow("T2", 2, "C1", T0 + dB + 780, T0 + dB + 780)>>)

\* Walks and rides together, rows out of order.  Trip T3 runs X1 -> C1 -> N1
\* (its C1 row may lack the arrival), trip T4 runs N1 -> X2, the slow trip T7
\* leaves X1 first and reaches N1 last, trip T8 runs X2 -> C1 and beats T3
\* there, and X2 -> X1 has a pathway shorter than 30 s.
FeedMix(c1arr) ==
    MkFeed("Mix", <<"X1", "X2", "C1", "N1">>,
           <<PathwayRow("X2", "X1", 10)>>, <<>>,
           <<StopTimeRow("T4", 1, "N1", T0 + 900, T0 + 960),
             StopTimeRow("T4", 2, "X2", T0 + 1500, T0 + 1500),
             StopTimeRow("T3", 2, "C1", c1arr, T0 + 500),
             StopTimeRow("T3", 1, "X1", T0 + 120, T0 + 120),
             StopTimeRow("T3", 3, "N1", T0 + 900, T0 + 900),
             StopTimeRow("T7", 1, "X1", T0 + 60, T0 + 60),
             StopTimeRow("T7", 2, "N1", T0 + 2000, T0 + 2000),
             StopTimeRow("T8", 1, "X2", T0 + 100, T0 + 100),
             StopTimeRow("T8", 2, "C1", T0 + 300, T0 + 300)>>)

\* Three platforms in a line, walks only.
FeedLine == MkFeed("Line", <<"X1", "X2", "X3">>, <<>>, <<>>, <<>>)

\* Scenario S6 and a variant: {X1, X2} and {N1, C1} are two components.  With
\* late, a second trip leaves X1 for X2 after the default cap.
FeedIslands(late) ==
    MkFeed("Islands", <<"X1", "X2", "N1", "C1">>, <<>>, <<>>,
           <<StopTimeRow("T1", 1, "N1", T0 + 300, T0 + 300),
             StopTimeRow("T1", 2, "C1", T0 + 900, T0 + 900)>>
           \o (IF late
               THEN <<StopTimeRow("T5", 1, "X1", T0 + 8000, T0 + 8000),
                      StopTimeRow("T5", 2, "X2", T0 + 8100, T0 + 8100)>>
               ELSE <<>>))

\* A feed whose trip T6 arrives at X1 before it has left X2 (a stop_times
\* row written with the wrong hour); C1 is out of reach.
FeedBackBy(back) ==
    MkFeed("BackInTime", <<"X1", "X2", "C1">>, <<>>, <<>>,
           <<StopTimeRow("T6", 1, "X2", T0 + 100, T0 + 100),
             StopTimeRow("T6", 2, "X1", T0 - back, T0 - back)>>)

FeedBackInTime == FeedBackBy(50)

\* A station X whose platforms share a stop_name and have a stop_desc each,
\* and a platform N1 with neither.
FeedNames ==
    [MkFeed("Names", <<"N1">>, <<>>, <<>>, <<>>)
     EXCEPT !.stops =
        <<[StopRow("X1", LatOf("X1"), "X", <<"C", "a", "s">>)
             EXCEPT !.stop_desc = <<"A", "1">>],
          [StopRow("X2", LatOf("X2"), "X", <<"C", "a", "s">>)
             EXCEPT !.stop_desc = <<"A", "2">>],
          StopRow("N1", LatOf("N1"), "", <<>>)>>]

\* A ride from C1, reached late, that arrives at N1 before it departs.
FeedBackLate ==
    MkFeed("BackLate", <<"X1", "C1", "N1">>, <<>>, <<>>,
           <<StopTimeRow("T7", 1, "X1", T0 + 10, T0 + 10),
             StopTimeRow("T7", 2, "C1", T0 + 2000, T0 + 2000),
             StopTimeRow("T8", 1, "C1", T0 + 2100, T0 + 2100),
             StopTimeRow("T8", 2, "N1", T0 + 50, T0 + 50)>>)

Feeds ==
    {FeedS1, FeedS5, FeedSameSpot, FeedLine, FeedBackInTime, FeedBackBy(500),
     FeedBackLate, FeedNames}
    \cup {FeedWalk(pw, tr) :
            pw \in {<<>>} \cup {<<PathwayRow("X1", "X2", tt)>> : tt \in {NA, 10, 120}},
            tr \in BOOLEAN}
    \cup {FeedRide(dA, dB) : dA \in {0, 300}, dB \in {420, 7000}}
    \cup {FeedMix(a) : a \in {NA, T0 + 480}}
    \cup {FeedIslands(late) : late \in BOOLEAN}
    \cup {FeedZeroRide(to) : to \in {"C1", "X2"}}
    \cup {FeedDangling(kind) : kind \in {"pathway", "transfer", "ride"}}
    \cup {FeedStation(d1, d2) : d1 \in {NA, T0 - 60, T0 + 120, T0 + 240},
                                d2 \in {T0 - 120, T0 + 240}}

\* The queries of people_inputs, for the station names of the table names:
\* for each station the shortest beginning of its name, in lower case, that
\* the resolver takes to it (several names may contain it), and one query
\* that no name contains.
LowerPrefix(name, k) == [i \in 1..k |-> Lower(name[i])]

TakenTo(names, q, st) ==
    /\ Contains(names[st], q)
    /\ \A t \in DOMAIN names \ {st} :
          Contains(names[t], q) => StrLess(names[st], names[t])

QueryFor(names, st) ==
    LowerPrefix(names[st],
                CHOOSE k \in 1..Len(names[st]) :
                   /\ TakenTo(names, LowerPrefix(names[st], k), st)
                   /\ \A j \in 1..(k - 1) : ~TakenTo(names, LowerPrefix(names[st], j), st))

Queries(names) == {QueryFor(names, st) : st \in DOMAIN names} \cup {<<"z", "o", "o">>}

\* The values MAX_TRIP_TIME_S is configured to.
MaxTripTimes == {0, 60, 900, DEFAULT_MAX_TRIP_TIME_S}

\* ------------------------------------------------------------------ state
VARIABLES
    max_trip_time_s,     \* MAX_TRIP_TIME_S as configured
    query,               \* person -> the query of people_inputs
    station_id,          \* person -> the station resolved for the person
    start_stop,          \* person -> start_stop_id
    pq,                  \* person -> frontier
    visited_stops,       \* person -> set of platforms
    reached_stop_first,  \* person -> [platform -> [arr_abs, elapsed]]
    parent,              \* person -> [platform -> [from_stop, info]]
    counter,             \* the global insertion counter
    popped,              \* what pop_global returned last
    next_progress_mark,
    meeting,             \* None, ("OK", stop) or ("CAP", person)
    pc                   \* "loop" while the search loop runs, then "done";
                         \* "error" when the initialisation has raised,
                         \* "raised" when a step of the loop has

\* The feed-filter utilities (src/utils): one run of one script.
VARIABLES
    gtfs,                \* the input GTFS folder of the run
    args,                \* the command line of the run
    out,                 \* the exit status and the tables written
    tool                 \* the script that has run, "none" before the run,
                         \* "idle" when the meeting search is what runs

tables == <<feed, stop_lat, rows_at_stop, trip_groups, walk_edges, provided_pairs, grid,
            station_to_platforms, stationid_to_name>>

filters == <<gtfs, args, out, tool>>

\* The state of the meeting search.
search == <<tables, max_trip_time_s, query, station_id, start_stop, pq, visited_stops,
            reached_stop_first, parent, counter, popped, next_progress_mark, meeting, pc>>

vars == <<tables, max_trip_time_s, query, station_id, start_stop, pq, visited_stops, reached_stop_first,
          parent, counter, popped, next_progress_mark, meeting, pc, filters>>

NoInfo == Info("", "", "", "", "", 0, 0, 0, 0, 0, "")
NoMeeting == [kind |-> "None", stop |-> "", who |-> 0]
Popped(tag, accum, S, dest_stop, info) ==
    [tag |-> tag, accum |-> accum, S |-> S, dest_stop |-> dest_stop, info |-> info]

\* Mutant of resolve_station: a query without match gets every station.
resolve_station_Lenient(q) ==
    LET m == {st \in DOMAIN stationid_to_name : Contains(stationid_to_name[st], q)}
    IN IF m = {} THEN DOMAIN stationid_to_name ELSE m

\* resolve_station(q): the stations that sort_values("station_name") may put
\* first among the matches (the order of equal names is not specified); the
\* empty set stands for the ValueError.
resolve_station(q) ==
    LET m == {st \in DOMAIN stationid_to_name : Contains(stationid_to_name[st], q)}
    IN {st \in m : \A t \in m : ~StrLess(stationid_to_name[t], stationid_to_name[st])}

\* The first person of people_inputs whose query raises, or NumPersons + 1.
FirstUnresolved(qs) ==
    LET failed == {P \in Persons : resolve_station(qs[P]) = {}}
    IN IF failed = {} THEN NumPersons + 1
       ELSE CHOOSE P \in failed : \A Q \in failed : P <= Q

\* The loop of pick_start_platform over platforms[i..], reading the table
\* ras for rows_at_stop: best is the pair [sid, dep] found so far, with
\* sid = "" for None.
RECURSIVE PickLoop(_, _, _, _, _)
PickLoop(ras, platforms, i, t0, best) ==
    IF i > Len(platforms) THEN best
    ELSE LET sid == platforms[i]
             grp == ras[sid]
             g == SelectSeq(grp, LAMBDA r : r.dep_sec # NA /\ r.dep_sec >= t0)
         IN IF g = <<>> THEN PickLoop(ras, platforms, i + 1, t0, best)
            ELSE LET cand_dep == g[1].dep_sec
                 IN IF best.sid = "" \/ cand_dep < best.dep
                    THEN PickLoop(ras, platforms, i + 1, t0,
                                  [sid |-> g[1].stop_id, dep |-> cand_dep])
                    ELSE PickLoop(ras, platforms, i + 1, t0, best)

\* pick_start_platform over given tables; "" stands for None.
PickIn(stp, ras, station, t0) ==
    LET platforms == stp[station]
        best == PickLoop(ras, platforms, 1, t0, [sid |-> "", dep |-> NA])
    IN IF best.sid # "" THEN best.sid
       ELSE IF platforms # <<>> THEN platforms[1] ELSE ""

\* Mutant of pick_start_platform: the first platform, whatever departs.
pick_start_platform_First(station, t0) == station_to_platforms[station][1]

pick_start_platform(station, t0) ==
    PickIn(station_to_platforms, rows_at_stop, station, t0)

\* ---- Initialize persons ----
\* The seed of one person: the START entry, then the three enqueue calls on
\* the start platform, numbered from the counter value cnt.
SeedPerson(sid, owner, cnt) ==
    Expand(heappush_entry([pq |-> {}, counter |-> cnt], <<0, T0, sid>>,
                          Info(owner, "START", "", "", sid, 0, 0, 0, T0, T0, "")),
           sid, T0, 0, owner)

RECURSIVE CounterBefore(_, _)
CounterBefore(starts, P) ==
    IF P = 1 THEN 0
    ELSE SeedPerson(starts[P - 1], Labels[P - 1], CounterBefore(starts, P - 1)).counter

Init ==
    /\ feed \in Feeds
    /\ stop_lat = BuildStopLat(feed)
    /\ rows_at_stop = BuildRowsAtStop(feed)
    /\ trip_groups = BuildTripGroups(feed)
    /\ walk_edges = BuildWalkEdges(feed)
    /\ provided_pairs = BuildProvidedPairs(feed)
    /\ grid = BuildGrid(feed)
    /\ max_trip_time_s \in MaxTripTimes
    /\ station_to_platforms = BuildStationToPlatforms(feed)
    /\ stationid_to_name \in BuildStationNames(feed)
    /\ query \in [Persons -> Queries(stationid_to_name)]
    /\ station_id \in
          {st \in [Persons -> DOMAIN station_to_platforms \cup {""}] :
              \A P \in Persons :
                 IF P < FirstUnresolved(query)
                 THEN st[P] \in resolve_station(query[P])
                 ELSE st[P] = ""}
    /\ start_stop = [P \in Persons |->
                       IF P < FirstUnresolved(query)
                       THEN pick_start_platform(station_id[P], T0)
                       ELSE ""]
    /\ pq = [P \in Persons |->
               IF P < FirstUnresolved(query)
               THEN SeedPerson(start_stop[P], Labels[P], CounterBefore(start_stop, P)).pq
               ELSE {}]
    /\ counter = CounterBefore(start_stop, FirstUnresolved(query))
    /\ visited_stops = [P \in Persons |-> {}]
    /\ reached_stop_first = [P \in Persons |-> <<>>]
    /\ parent = [P \in Persons |-> <<>>]
    /\ popped = Popped("init", 0, 0, "", NoInfo)
    /\ next_progress_mark = PROGRESS_STEP_S
    /\ meeting = NoMeeting
    /\ pc = IF FirstUnresolved(query) > NumPersons THEN "loop" ELSE "error"
    /\ gtfs = <<>>
    /\ args = <<>>
    /\ out = <<>>
    /\ tool = "idle"

\* ---- Global pop helper ----
\* Mutant of KeyLess: the counter is the first component of the key.
KeyLess_CounterFirst(a, b) == a.counter < b.counter

\* Python's tuple order on (accum, arr_time, dest_stop, counter).
KeyLess(a, b) ==
    \/ a.accum < b.accum
    \/ /\ a.accum = b.accum
       /\ \/ a.arr_time < b.arr_time
          \/ /\ a.arr_time = b.arr_time
             /\ \/ StopRank(a.dest_stop) < StopRank(b.dest_stop)
                \/ /\ a.dest_stop = b.dest_stop
                   /\ a.counter < b.counter

\* S["pq"][0]: the entries of a heap that no other entry precedes.
HeapTops(q) == {x \in q : \A y \in q : ~KeyLess(y, x)}

\* Mutant of GlobalMin: the first non-empty frontier is advanced, whatever the
\* tops of the others.
GlobalMin_FirstPerson(pqs) ==
    LET nonempty == {P \in Persons : pqs[P] # {}}
    IN IF nonempty = {} THEN {}
       ELSE LET first == CHOOSE P \in nonempty : \A Q \in nonempty : P <= Q
            IN {first} \X HeapTops(pqs[first])

\* min(candidates, key=lambda x: x[0]): the <<person, top entry>> pairs of
\* the non-empty frontiers that no other top precedes.
GlobalMin(pqs) ==
    LET candidates == {c \in Persons \X UNION {pqs[P] : P \in Persons} :
                          c[2] \in HeapTops(pqs[c[1]])}
    IN {c \in candidates : \A d \in candidates : ~KeyLess(d[2], c[2])}

\* Mutants of CapExceeded: the cap itself counts as exceeded; the configured
\* cap is ignored for the default.
CapExceeded_Ge(accum, cap) == accum >= cap
CapExceeded_Default(accum, cap) == accum > DEFAULT_MAX_TRIP_TIME_S

\* Mutant of heappop: the top entry is read and left in the heap.
heappop_Peek(q, entry) == q

CapExceeded(accum, cap) == accum > cap

\* heapq.heappop(S["pq"]) of the top entry.
heappop(q, entry) == q \ {entry}

\* Mutant of EveryoneReached: any() for all().
EveryoneReached_Any(reached, dest_stop) ==
    \E P \in Persons : dest_stop \in DOMAIN reached[P]

\* The meeting test of the loop.
EveryoneReached(reached, dest_stop) ==
    \A P \in Persons : dest_stop \in DOMAIN reached[P]

SetAt(fn, key, val) == [k \in DOMAIN fn \cup {key} |-> IF k = key THEN val ELSE fn[k]]

ProgressMark(mark, accum) == IF accum >= mark THEN mark + PROGRESS_STEP_S ELSE mark

\* ---- Search loop ----
\* pop_global finds every queue empty: the loop breaks with meeting = None.
Drain ==
    /\ pc = "loop"
    /\ GlobalMin(pq) = {}
    /\ popped' = Popped("None", 0, 0, "", NoInfo)
    /\ pc' = "done"
    /\ UNCHANGED <<filters, tables, max_trip_time_s, query, station_id, start_stop, pq, visited_stops,
                   reached_stop_first, parent, counter, next_progress_mark, meeting>>

\* pop_global finds the smallest top above the cap: nothing is popped.
Cap ==
    /\ pc = "loop"
    /\ \E c \in GlobalMin(pq) :
         /\ CapExceeded(c[2].accum, max_trip_time_s)
         /\ popped' = Popped("CAP", 0, c[1], "", NoInfo)
         /\ meeting' = [kind |-> "CAP", stop |-> "", who |-> c[1]]
    /\ pc' = "done"
    /\ UNCHANGED <<filters, tables, max_trip_time_s, query, station_id, start_stop, pq, visited_stops,
                   reached_stop_first, parent, counter, next_progress_mark>>

\* The popped entry's platform is already visited by its owner: continue.
Discard ==
    /\ pc = "loop"
    /\ \E c \in GlobalMin(pq) :
         LET S == c[1]
             entry == c[2]
             dest_stop == entry.info.to_stop
         IN /\ ~CapExceeded(entry.accum, max_trip_time_s)
            /\ dest_stop \in visited_stops[S]
            /\ pq' = [pq EXCEPT ![S] = heappop(@, entry)]
            /\ popped' = Popped("entry", entry.accum, S, dest_stop, entry.info)
            /\ next_progress_mark' = ProgressMark(next_progress_mark, entry.accum)
    /\ UNCHANGED <<filters, tables, max_trip_time_s, query, station_id, start_stop, visited_stops,
                   reached_stop_first, parent, counter, meeting, pc>>

\* Mutant of SettleVisited: the platform is not added.
SettleVisited_Skip(S, dest_stop) == visited_stops

\* What settling dest_stop writes into S's maps.
\* Mutant of SettleVisited: the platform is marked for every person.
SettleVisited_Everyone(S, dest_stop) ==
    [P \in Persons |-> visited_stops[P] \cup {dest_stop}]

SettleVisited(S, dest_stop) == [visited_stops EXCEPT ![S] = @ \cup {dest_stop}]

\* Mutant of SettleParent: the destination is recorded as the predecessor.
SettleParent_ToStop(S, dest_stop, info) ==
    IF info.mode # "START"
    THEN [parent EXCEPT ![S] = SetAt(@, dest_stop, [from_stop |-> info.to_stop, info |-> info])]
    ELSE parent

SettleParent(S, dest_stop, info) ==
    IF info.mode # "START"
    THEN [parent EXCEPT ![S] = SetAt(@, dest_stop, [from_stop |-> info.from_stop, info |-> info])]
    ELSE parent

\* Mutant of SettleReached: the departure is recorded for the arrival.
SettleReached_Depart(S, dest_stop, info, accum) ==
    IF dest_stop \notin DOMAIN reached_stop_first[S]
    THEN [reached_stop_first EXCEPT
             ![S] = SetAt(@, dest_stop, [arr_abs |-> info.depart_sec, elapsed |-> accum])]
    ELSE reached_stop_first

SettleReached(S, dest_stop, info, accum) ==
    IF dest_stop \notin DOMAIN reached_stop_first[S]
    THEN [reached_stop_first EXCEPT
             ![S] = SetAt(@, dest_stop, [arr_abs |-> info.arrive_sec, elapsed |-> accum])]
    ELSE reached_stop_first

\* The popped entry settles a platform that everyone has now reached: OK.
Meet ==
    /\ pc = "loop"
    /\ \E c \in GlobalMin(pq) :
         LET S == c[1]
             entry == c[2]
             dest_stop == entry.info.to_stop
             reached == SettleReached(S, dest_stop, entry.info, entry.accum)
         IN /\ ~CapExceeded(entry.accum, max_trip_time_s)
            /\ dest_stop \notin visited_stops[S]
            /\ EveryoneReached(reached, dest_stop)
            /\ pq' = [pq EXCEPT ![S] = heappop(@, entry)]
            /\ popped' = Popped("entry", entry.accum, S, dest_stop, entry.info)
            /\ next_progress_mark' = ProgressMark(next_progress_mark, entry.accum)
            /\ visited_stops' = SettleVisited(S, dest_stop)
            /\ parent' = SettleParent(S, dest_stop, entry.info)
            /\ reached_stop_first' = reached
            /\ meeting' = [kind |-> "OK", stop |-> dest_stop, who |-> 0]
    /\ pc' = "done"
    /\ UNCHANGED <<filters, tables, max_trip_time_s, query, station_id, start_stop, counter>>

\* The popped entry settles a platform not yet reached by everyone: expand it
\* into the owner's frontier.
Settle ==
    /\ pc = "loop"
    /\ \E c \in GlobalMin(pq) :
         LET S == c[1]
             entry == c[2]
             info == entry.info
             dest_stop == info.to_stop
             reached == SettleReached(S, dest_stop, info, entry.accum)
         IN /\ ~CapExceeded(entry.accum, max_trip_time_s)
            /\ dest_stop \notin visited_stops[S]
            /\ ~EveryoneReached(reached, dest_stop)
            /\ dest_stop \in DOMAIN stop_lat
            /\ \E h \in {Expand([pq |-> heappop(pq[S], entry), counter |-> counter],
                                 dest_stop, info.arrive_sec, entry.accum, info.owner)} :
                  /\ pq' = [pq EXCEPT ![S] = h.pq]
                  /\ counter' = h.counter
            /\ popped' = Popped("entry", entry.accum, S, dest_stop, info)
            /\ next_progress_mark' = ProgressMark(next_progress_mark, entry.accum)
            /\ visited_stops' = SettleVisited(S, dest_stop)
            /\ parent' = SettleParent(S, dest_stop, info)
            /\ reached_stop_first' = reached
    /\ UNCHANGED <<filters, tables, max_trip_time_s, query, station_id, start_stop, meeting, pc>>

\* The popped entry settles a platform that is not a key of stop_lat: the
\* explicit walks are enqueued, then nearby_stops_within_radius raises
\* KeyError at stop_lat[stop_id], which nothing catches.
Raise ==
    /\ pc = "loop"
    /\ \E c \in GlobalMin(pq) :
         LET S == c[1]
             entry == c[2]
             info == entry.info
             dest_stop == info.to_stop
             reached == SettleReached(S, dest_stop, info, entry.accum)
         IN /\ ~CapExceeded(entry.accum, max_trip_time_s)
            /\ dest_stop \notin visited_stops[S]
            /\ ~EveryoneReached(reached, dest_stop)
            /\ dest_stop \notin DOMAIN stop_lat
            /\ \E h \in {enqueue_pathway_transfer_walks(
                              [pq |-> heappop(pq[S], entry), counter |-> counter],
                              dest_stop, info.arrive_sec, entry.accum, info.owner)} :
                  /\ pq' = [pq EXCEPT ![S] = h.pq]
                  /\ counter' = h.counter
            /\ popped' = Popped("entry", entry.accum, S, dest_stop, info)
            /\ next_progress_mark' = ProgressMark(next_progress_mark, entry.accum)
            /\ visited_stops' = SettleVisited(S, dest_stop)
            /\ parent' = SettleParent(S, dest_stop, info)
            /\ reached_stop_first' = reached
    /\ pc' = "raised"
    /\ UNCHANGED <<filters, tables, max_trip_time_s, query, station_id, start_stop, meeting>>

Next == Drain \/ Cap \/ Discard \/ Meet \/ Settle \/ Raise

Spec == Init /\ [][Next]_vars

\* The loop is a plain while True: a step that can be taken is taken.
FairSpec == Spec /\ WF_vars(Next)

\* The status of the result record.
Status ==
    IF pc = "loop" THEN "RUNNING"
    ELSE IF pc \in {"error", "raised"} THEN "ERROR"
    ELSE IF meeting.kind = "None" THEN "NONE" ELSE meeting.kind

\* ---- Final report ----
\* The while loop of reconstruct, given up after fuel iterations: whether it
\* has ended, and the path (reversed as the code reverses it).
RECURSIVE ReconstructFrom(_, _, _)
ReconstructFrom(par, cur, fuel) ==
    IF cur \notin DOMAIN par THEN [ended |-> TRUE, path |-> <<>>]
    ELSE IF fuel = 0 THEN [ended |-> FALSE, path |-> <<>>]
    ELSE LET rest == ReconstructFrom(par, par[cur].from_stop, fuel - 1)
         IN [ended |-> rest.ended, path |-> Append(rest.path, par[cur].info)]

\* reconstruct(S, stop_id).  A loop that ends at all ends within as many
\* iterations as the map has keys.
reconstruct(S, stop_id) ==
    ReconstructFrom(parent[S], stop_id, Cardinality(DOMAIN parent[S]))

\* arrivals: (label, elapsed, arr_abs) per person, in the order of persons.
arrivals ==
    [P \in Persons |->
        [label |-> Labels[P],
         elapsed |-> reached_stop_first[P][meeting.stop].elapsed,
         arr_abs |-> reached_stop_first[P][meeting.stop].arr_abs]]

RECURSIVE MaxOver(_, _)
MaxOver(fn, n) == IF n = 1 THEN fn[1] ELSE Max(fn[n], MaxOver(fn, n - 1))

RECURSIVE MinOver(_, _)
MinOver(fn, n) ==
    IF n = 1 THEN fn[1]
    ELSE LET m == MinOver(fn, n - 1) IN IF fn[n] < m THEN fn[n] ELSE m

\* Mutant of meet_time: min() for max().
meet_time_Min == MinOver([P \in Persons |-> arrivals[P].arr_abs], NumPersons)

meet_time == MaxOver([P \in Persons |-> arrivals[P].arr_abs], NumPersons)
max_elapsed == MaxOver([P \in Persons |-> arrivals[P].elapsed], NumPersons)
spread == max_elapsed - MinOver([P \in Persons |-> arrivals[P].elapsed], NumPersons)

\* ------------------------------------------------- reference: all paths
\* The journeys the expansion rules allow, written as a relation on
\* <<platform, absolute time, elapsed>>: one explicit walk, one GEO walk or
\* one ride boarded at a departure not before the time of arrival.
LatIn(f, sid) == (CHOOSE r \in Range(f.stops) : r.stop_id = sid).stop_lat

ExplicitPairs(f) ==
    {<<r.from_stop_id, r.to_stop_id>> :
        r \in {x \in Range(f.pathways) : x.traversal_time # NA}}
    \cup
    {<<r.from_stop_id, r.to_stop_id>> :
        r \in {x \in Range(f.transfers) : x.min_transfer_time # NA}}

OneEdge(f, u, t, e) ==
    {<<r.to_stop_id, t + Max(30, r.traversal_time), e + Max(30, r.traversal_time)>> :
        r \in {x \in Range(f.pathways) : x.from_stop_id = u /\ x.traversal_time # NA}}
    \cup
    {<<r.to_stop_id, t + Max(30, r.min_transfer_time), e + Max(30, r.min_transfer_time)>> :
        r \in {x \in Range(f.transfers) : x.from_stop_id = u /\ x.min_transfer_time # NA}}
    \cup
    {<<v, t + GeoTime(haversine_mm(LatIn(f, u), LatIn(f, v))),
          e + GeoTime(haversine_mm(LatIn(f, u), LatIn(f, v)))>> :
        v \in {x \in StopIds(f) \ {u} :
                 /\ u \in StopIds(f)
                 /\ haversine_mm(LatIn(f, u), LatIn(f, x)) <= MAX_WALK_RADIUS_MM
                 /\ GeoTime(haversine_mm(LatIn(f, u), LatIn(f, x))) <= MAX_WALK_TIME_S
                 /\ <<u, x>> \notin ExplicitPairs(f)}}
    \cup
    {<<rr[2].stop_id, rr[2].arr_sec, e + (rr[1].dep_sec - t) + (rr[2].arr_sec - rr[1].dep_sec)>> :
        rr \in {x \in Range(f.stop_times) \X Range(f.stop_times) :
                  /\ x[1].stop_id = u
                  /\ x[1].dep_sec # NA
                  /\ x[1].dep_sec >= t
                  /\ x[2].trip_id = x[1].trip_id
                  /\ x[2].stop_sequence > x[1].stop_sequence
                  /\ x[2].arr_sec # NA}}

RECURSIVE PathEnds(_, _, _)
PathEnds(f, seed, k) ==
    IF k = 0 THEN {<<seed, T0, 0>>}
    ELSE LET prev == PathEnds(f, seed, k - 1)
         IN prev \cup UNION {OneEdge(f, x[1], x[2], x[3]) : x \in prev}

\* The elapsed times of the paths of at most MaxPathLen edges from seed to q.
PathElapsed(f, seed, q) == {x[3] : x \in {y \in PathEnds(f, seed, MaxPathLen) : y[1] = q}}

Reachable(f, seed, q) == PathElapsed(f, seed, q) # {}

LeastElapsed(f, seed, q) ==
    CHOOSE e \in PathElapsed(f, seed, q) : \A e2 \in PathElapsed(f, seed, q) : e <= e2

\* No ride of the feed arrives before it departs.
NonNegativeDurations(f) ==
    \A r1 \in Range(f.stop_times), r2 \in Range(f.stop_times) :
        (/\ r1.trip_id = r2.trip_id
         /\ r2.stop_sequence > r1.stop_sequence
         /\ r1.dep_sec # NA
         /\ r2.arr_sec # NA) => r2.arr_sec >= r1.dep_sec

SetMax(S) == CHOOSE m \in S : \A x \in S : x <= m

\* ----------------------------------------------------------------- claims

\* C1: whenever the search ends with OK(p), every person has settled p, and
\* for a feed with non-negative durations no platform q that everyone can
\* reach has a smaller group maximum of least elapsed times than the maximum
\* over persons of reached_stop_first[p].elapsed.
C1_EarliestMeeting ==
    (Status = "OK" /\ NonNegativeDurations(feed)) =>
        /\ \A P \in Persons : meeting.stop \in visited_stops[P]
        /\ \A P \in Persons : meeting.stop \in DOMAIN reached_stop_first[P]
        /\ \A q \in PlatformIds(feed) :
              (\A P \in Persons : Reachable(feed, start_stop[P], q)) =>
                 ~(SetMax({LeastElapsed(feed, start_stop[P], q) : P \in Persons})
                     < SetMax({reached_stop_first[P][meeting.stop].elapsed : P \in Persons}))

\* C1 witness: a meeting at a platform that is not the seed of every person,
\* while another platform is reachable by everyone too.
C1_Witness ==
    /\ Status = "OK"
    /\ NonNegativeDurations(feed)
    /\ \E P \in Persons : reached_stop_first[P][meeting.stop].elapsed > 0
    /\ \E q \in PlatformIds(feed) \ {meeting.stop} :
          \A P \in Persons : Reachable(feed, start_stop[P], q)

\* What every claim about a step reads: the platforms every person has a
\* first-reached record for.
CommonReached(reached) ==
    {q \in PlatformIds(feed) : \A P \in Persons : q \in DOMAIN reached[P]}

\* The step settled platform q for person S.
SettledInStep(S, q) == q \notin visited_stops[S] /\ q \in visited_stops'[S]

\* C2: the loop ends with OK(to) exactly in the step in which some person
\* settles `to` and `to` is then a key of reached_stop_first of every person;
\* while the loop runs, no platform is a key of reached_stop_first of all
\* persons at once.
C2_MeetingTest ==
    /\ [](pc = "loop" => CommonReached(reached_stop_first) = {})
    /\ [][(pc = "loop" /\ pc' = "done" /\ meeting'.kind = "OK")
          <=> (/\ pc = "loop"
               /\ \E S \in Persons : \E to \in PlatformIds(feed) :
                     /\ SettledInStep(S, to)
                     /\ to \in CommonReached(reached_stop_first')
                     /\ meeting'.stop = to)]_vars

C2_Witness ==
    /\ Status = "OK"
    /\ popped.info.mode # "START"
    /\ \E P \in Persons : Cardinality(visited_stops[P]) >= 2

\* C3: for a feed with non-negative durations, the elapsed time recorded for
\* a settled platform is at most the elapsed time of every path from the
\* person's seed to it.
C3_ShortestPath ==
    NonNegativeDurations(feed) =>
        \A P \in Persons : \A p \in DOMAIN reached_stop_first[P] :
            \A e \in PathElapsed(feed, start_stop[P], p) :
                reached_stop_first[P][p].elapsed <= e

\* C3 witness: a settled platform with two paths of different elapsed time,
\* the longer of them a single edge from the seed.
C3_Witness ==
    /\ NonNegativeDurations(feed)
    /\ \E P \in Persons : \E p \in DOMAIN reached_stop_first[P] :
          \E x \in OneEdge(feed, start_stop[P], T0, 0) :
              x[1] = p /\ reached_stop_first[P][p].elapsed < x[3]

\* Scenario S3: A at N1, B at S1, T1 13:05 -> 13:15, T2 13:07 -> 13:20.
IsS3 ==
    /\ feed = FeedRide(300, 420)
    /\ start_stop = <<"N1", "S1">>
    /\ max_trip_time_s = DEFAULT_MAX_TRIP_TIME_S

\* C4: on OK(p) the reported meeting time is the greatest first-reached
\* arrival at p over the persons, each reported elapsed is the person's
\* first-reached elapsed at p, and the fairness difference is the greatest
\* minus the least elapsed, so never negative; scenario S3 ends with C1,
\* 13:20, 900 s, 1200 s and a difference of 300 s.
C4_Report ==
    /\ Status = "OK" =>
          LET p == meeting.stop
              el == [P \in Persons |-> reached_stop_first[P][p].elapsed]
          IN /\ \A P \in Persons : meet_time >= reached_stop_first[P][p].arr_abs
             /\ \E P \in Persons : meet_time = reached_stop_first[P][p].arr_abs
             /\ \A P \in Persons : arrivals[P].elapsed = el[P]
             /\ \A P, Q \in Persons : spread >= el[P] - el[Q]
             /\ \E P, Q \in Persons : spread = el[P] - el[Q]
             /\ spread >= 0
    /\ (IsS3 /\ pc = "done") =>
          /\ Status = "OK"
          /\ meeting.stop = "C1"
          /\ meet_time = to_seconds(13, 20, 0)
          /\ arrivals[1].elapsed = 900
          /\ arrivals[2].elapsed = 1200
          /\ spread = 300

C4_Witness == IsS3 /\ Status = "OK"

\* All entries of all frontiers, each with its owner.
AllEntries == UNION {{P} \X pq[P] : P \in Persons}

\* C5: the search is deterministic: while the loop runs, at most one
\* <<person, entry>> pair can be the one pop_global takes, because no two
\* entries in the frontiers carry the same key (elapsed, arrival, destination,
\* counter).
C5_Deterministic ==
    /\ Cardinality(GlobalMin(pq)) <= 1
    /\ \A c \in AllEntries : \A d \in AllEntries :
          (c # d) => (KeyLess(c[2], d[2]) \/ KeyLess(d[2], c[2]))

\* C5 witness: after a global step has popped an entry, two frontiers hold
\* entries that agree on (elapsed, arrival, destination), one of them the
\* global minimum, so that only the counter decides.
C5_Witness ==
    /\ pc = "loop"
    /\ popped.tag = "entry"
    /\ \E c \in GlobalMin(pq) : \E d \in AllEntries :
          /\ d[1] # c[1]
          /\ d[2].accum = c[2].accum
          /\ d[2].arr_time = c[2].arr_time
          /\ d[2].dest_stop = c[2].dest_stop

\* C6 as stated: the loop, once entered, stops after finitely many steps, in
\* one of OK, CAP and NONE, and takes no step afterwards.
C6_Original ==
    /\ (pc = "loop") ~> (pc = "done" /\ Status \in {"OK", "CAP", "NONE"})
    /\ [][pc = "done" => UNCHANGED vars]_vars

\* What the loop does guarantee: once entered it stops after finitely many
\* steps, in one of OK, CAP and NONE, or with the KeyError of a step that has
\* settled a platform without a row in stops.txt; it takes no step afterwards.
C6_Terminates ==
    /\ (pc = "loop") ~> (pc \in {"done", "raised"})
    /\ [](pc = "done" => Status \in {"OK", "CAP", "NONE"})
    /\ [](pc = "raised" => /\ popped.tag = "entry"
                           /\ popped.dest_stop \notin StopIds(feed)
                           /\ popped.dest_stop \in visited_stops[popped.S])
    /\ [][(pc = "done" \/ pc = "raised") => UNCHANGED vars]_vars

\* A search that has ended after one person settled three platforms.
C6_Witness ==
    /\ pc = "done"
    /\ \E P \in Persons : Cardinality(visited_stops[P]) >= 3

\* The entries that no entry of any frontier precedes, with their owners.
LeastEntries == {c \in AllEntries : \A d \in AllEntries : ~KeyLess(d[2], c[2])}

\* C7: a step ends the search with CAP(S) exactly when the smallest key of
\* all frontiers has elapsed > MAX_TRIP_TIME_S; S owns that key and no
\* frontier, visited set, predecessor map or first-reached map changes; an
\* entry whose elapsed equals MAX_TRIP_TIME_S is popped and processed.
C7_Cap ==
    [][/\ (pc = "loop" /\ pc' = "done" /\ meeting'.kind = "CAP")
          <=> (pc = "loop" /\ \E c \in LeastEntries : c[2].accum > max_trip_time_s)
       /\ (pc = "loop" /\ meeting'.kind = "CAP") =>
             /\ \E c \in LeastEntries : meeting'.who = c[1]
             /\ UNCHANGED <<pq, visited_stops, parent, reached_stop_first>>
       /\ (pc = "loop" /\ \E c \in LeastEntries : c[2].accum = max_trip_time_s) =>
             \E c \in LeastEntries :
                /\ c[2] \notin pq'[c[1]]
                /\ popped' = Popped("entry", c[2].accum, c[1], c[2].dest_stop, c[2].info)
                /\ meeting'.kind # "CAP"
                /\ (c[2].dest_stop \notin visited_stops[c[1]]
                       => c[2].dest_stop \in visited_stops'[c[1]])
      ]_vars

\* C7 witness: the cap ended a search in which an entry with elapsed equal to
\* a positive cap had been settled.
C7_Witness ==
    /\ Status = "CAP"
    /\ max_trip_time_s > 0
    /\ \E P \in Persons : \E p \in DOMAIN reached_stop_first[P] :
          reached_stop_first[P][p].elapsed = max_trip_time_s

NoCommonReachable ==
    ~ \E q \in PlatformIds(feed) : \A P \in Persons : Reachable(feed, start_stop[P], q)

\* Every platform a person can reach is reached within the cap.
AllReachableWithinCap ==
    \A P \in Persons : \A q \in PlatformIds(feed) :
        Reachable(feed, start_stop[P], q) =>
            LeastElapsed(feed, start_stop[P], q) <= max_trip_time_s

\* Every entry pushed, by the expansion of the seed at initialisation or by
\* the expansion of a settled platform, is within the cap.
AllPushedWithinCap ==
    \A P \in Persons :
        /\ \A x \in OneEdge(feed, start_stop[P], T0, 0) : x[3] <= max_trip_time_s
        /\ \A u \in DOMAIN reached_stop_first[P] :
              \A x \in OneEdge(feed, u, reached_stop_first[P][u].arr_abs,
                               reached_stop_first[P][u].elapsed) :
                  x[3] <= max_trip_time_s

NoneExactly ==
    (Status = "NONE") <=>
        (/\ pc = "done"
         /\ \A P \in Persons : pq[P] = {}
         /\ CommonReached(reached_stop_first) = {})

\* C9 as stated: NONE exactly when all frontiers are empty and nothing is
\* settled by all; persons with disjoint reachable sets, all reachable within
\* the cap, end with NONE.
C9_Original ==
    /\ NoneExactly
    /\ (pc = "done" /\ NoCommonReachable /\ AllReachableWithinCap) => Status = "NONE"

\* C9, amended: NONE exactly when all frontiers are empty and nothing is
\* settled by all; persons with disjoint reachable sets end with NONE when
\* every entry pushed, entries for platforms already settled included, has
\* elapsed <= MAX_TRIP_TIME_S, and with CAP otherwise.
C9_None ==
    /\ NoneExactly
    /\ (pc = "done" /\ NoCommonReachable) =>
          Status = (IF AllPushedWithinCap THEN "NONE" ELSE "CAP")

C9_Witness ==
    /\ Status = "NONE"
    /\ NoCommonReachable
    /\ \E P \in Persons : Cardinality(visited_stops[P]) >= 2

\* Monotonic settle, for the entries still queued and the entry popped last.
MonotonicSettle ==
    /\ \A P \in Persons : \A x \in pq[P] :
          x.dest_stop \in DOMAIN reached_stop_first[P] =>
              x.accum >= reached_stop_first[P][x.dest_stop].elapsed
    /\ popped.tag = "entry" =>
          popped.accum >= reached_stop_first[popped.S][popped.dest_stop].elapsed

\* C10 as stated: once a person has settled p with elapsed e0, every entry for
\* p popped later or still in the frontier has elapsed >= e0.
C10_Original == MonotonicSettle

\* C10, amended: the same, for feeds with non-negative walk, wait and ride
\* durations.
C10_MonotonicSettle == NonNegativeDurations(feed) => MonotonicSettle

\* C10 witness: an entry for an already settled platform is popped and
\* discarded with a greater elapsed than the settled one.
C10_Witness ==
    /\ NonNegativeDurations(feed)
    /\ popped.tag = "entry"
    /\ popped.accum > reached_stop_first[popped.S][popped.dest_stop].elapsed

\* The step popped an entry of person S for platform p.
PopStep(S, p) ==
    /\ pc = "loop"
    /\ popped'.tag = "entry"
    /\ popped'.S = S
    /\ popped'.dest_stop = p
    /\ \E e \in pq[S] : e \notin pq'[S] /\ e.dest_stop = p /\ e.accum = popped'.accum

\* C11: visited_stops of every person only grows; a popped entry whose
\* destination its owner has already visited is discarded: visited_stops,
\* parent and reached_stop_first stay as they are and nothing is pushed; a
\* popped entry whose destination is new puts it into visited_stops, and only
\* such a step pushes entries, all of them leaving that destination, so a
\* settled platform is never expanded again.
C11_VisitedOnce ==
    [][\A S \in Persons :
          /\ visited_stops[S] \subseteq visited_stops'[S]
          /\ \A p \in PlatformIds(feed) :
                PopStep(S, p) =>
                   IF p \in visited_stops[S]
                   THEN /\ UNCHANGED <<visited_stops, parent, reached_stop_first, counter>>
                        /\ pq'[S] \subseteq pq[S]
                        /\ Cardinality(pq'[S]) = Cardinality(pq[S]) - 1
                        /\ \A Q \in Persons \ {S} : pq'[Q] = pq[Q]
                   ELSE /\ visited_stops'[S] = visited_stops[S] \cup {p}
                        /\ \A e \in pq'[S] \ pq[S] : e.info.from_stop = p
          /\ (pq'[S] \ pq[S] # {}) =>
                \E p \in PlatformIds(feed) \ visited_stops[S] : PopStep(S, p)
      ]_vars

\* C11 witness: an entry other than the one that settled its destination has
\* been popped for a platform its owner had visited, after that platform had
\* been expanded.
C11_Witness ==
    /\ popped.tag = "entry"
    /\ popped.info.mode # "START"
    /\ popped.dest_stop \in DOMAIN parent[popped.S]
    /\ parent[popped.S][popped.dest_stop].info # popped.info
    /\ \E e \in pq[popped.S] : e.info.from_stop = popped.dest_stop

\* C12: reached_stop_first[p] of a person is written at most once: in the
\* step that settles p, with the arrival time and the accumulated elapsed of
\* the popped entry; no later step changes or removes it.
C12_ReachedOnce ==
    [][\A S \in Persons : \A p \in PlatformIds(feed) :
          IF p \in DOMAIN reached_stop_first[S]
          THEN /\ p \in DOMAIN reached_stop_first'[S]
               /\ reached_stop_first'[S][p] = reached_stop_first[S][p]
          ELSE p \in DOMAIN reached_stop_first'[S] =>
                  /\ PopStep(S, p)
                  /\ p \notin visited_stops[S]
                  /\ p \in visited_stops'[S]
                  /\ reached_stop_first'[S][p] =
                        [arr_abs |-> popped'.info.arrive_sec, elapsed |-> popped'.accum]
                  /\ \E e \in pq[S] \ pq'[S] :
                        /\ e.dest_stop = p
                        /\ e.arr_time = reached_stop_first'[S][p].arr_abs
                        /\ e.accum = reached_stop_first'[S][p].elapsed
      ]_vars

\* C12 witness: a person has records for two platforms, one of them written
\* by a ride, and a later entry for a recorded platform has been popped with
\* another elapsed time.
C12_Witness ==
    /\ popped.tag = "entry"
    /\ Cardinality(DOMAIN reached_stop_first[popped.S]) >= 2
    /\ popped.accum # reached_stop_first[popped.S][popped.dest_stop].elapsed
    /\ \E p \in DOMAIN parent[popped.S] : parent[popped.S][p].info.mode = "RIDE"

\* reconstruct ends for every person and every settled platform.
ReconstructEnds ==
    \A S \in Persons : \A p \in visited_stops[S] : reconstruct(S, p).ended

RowPairs(f) ==
    {<<r.from_stop_id, r.to_stop_id>> : r \in Range(f.pathways) \cup Range(f.transfers)}

\* The GEO walk entries of all frontiers.  Every entry pushed is in a
\* frontier in the state after its push.
GeoEntries == {c[2] : c \in {d \in AllEntries : d[2].info.source = "GEO"}}

\* In scenario S5 the entries from A1 to A2 are PATHWAYS entries of 120 s, and
\* the person seeded at A1 has one after seeding.
S5Shadow ==
    feed = FeedS5 =>
        \A P \in Persons :
           /\ \A e \in pq[P] :
                 (e.info.from_stop = "A1" /\ e.info.to_stop = "A2") =>
                     /\ e.info.mode = "WALK"
                     /\ e.info.source = "PATHWAYS"
                     /\ e.info.walk_sec = 120
                     /\ e.info.arrive_sec - e.info.depart_sec = 120
           /\ (start_stop[P] = "A1" /\ popped.tag = "init") =>
                 \E e \in pq[P] : e.info.from_stop = "A1" /\ e.info.to_stop = "A2"

WalkEntries == {c[2] : c \in {d \in AllEntries : d[2].info.mode = "WALK"}}

\* C15: every WALK entry pushed, whether from pathways, from transfers or
\* from the spatial index, has walk_sec >= 30 and arrive_sec - depart_sec =
\* walk_sec, also when the time in the input or the geodesic time is below 30.
C15_WalkFloor ==
    \A e \in WalkEntries :
        /\ e.info.source \in {"PATHWAYS", "TRANSFERS", "GEO"}
        /\ e.info.walk_sec >= 30
        /\ e.info.arrive_sec - e.info.depart_sec = e.info.walk_sec
        /\ e.arr_time = e.info.arrive_sec

\* C15 witness: after a pop, a GEO entry between two platforms less than 30 s
\* apart and an explicit entry whose row gives less than 30 s are queued.
C15_Witness ==
    /\ popped.tag = "entry"
    /\ \E e \in WalkEntries :
          /\ e.info.source = "GEO"
          /\ CeilDiv(haversine_mm(LatIn(feed, e.info.from_stop), LatIn(feed, e.info.to_stop)),
                     WALK_SPEED_MM_PER_S) < 30
    /\ \E e \in WalkEntries :
          /\ e.info.source \in {"PATHWAYS", "TRANSFERS"}
          /\ \/ \E r \in Range(feed.pathways) :
                   /\ r.from_stop_id = e.info.from_stop
                   /\ r.to_stop_id = e.info.to_stop
                   /\ r.traversal_time # NA
                   /\ r.traversal_time < 30
             \/ \E t \in Range(feed.transfers) :
                   /\ t.from_stop_id = e.info.from_stop
                   /\ t.to_stop_id = e.info.to_stop
                   /\ t.min_transfer_time # NA
                   /\ t.min_transfer_time < 30

\* The RIDE entries of all frontiers.
RideEntries == {c[2] : c \in {d \in AllEntries : d[2].info.mode = "RIDE"}}

\* Row r2 comes after row r1 in the trip of both.
LaterInTrip(r1, r2) == r1.trip_id = r2.trip_id /\ r2.stop_sequence > r1.stop_sequence

\* C16: the destination of every RIDE entry pushed is a stop_times row that
\* has an arrival, later in the trip than a row of the boarding platform that
\* has the entry's departure; a row without arrival is never a destination,
\* and the rows after it that have one are: after seeding, every such row
\* later than a departure of the seed at or after T0 has its entry.
C16_RideTerminus ==
    /\ \A e \in RideEntries :
          /\ e.info.arrive_sec # NA
          /\ \E r1 \in Range(feed.stop_times) : \E r2 \in Range(feed.stop_times) :
                /\ LaterInTrip(r1, r2)
                /\ r1.trip_id = e.info.trip_id
                /\ r1.stop_id = e.info.from_stop
                /\ r1.dep_sec = e.info.depart_sec
                /\ r2.stop_id = e.info.to_stop
                /\ r2.arr_sec # NA
                /\ r2.arr_sec = e.info.arrive_sec
    /\ popped.tag = "init" =>
          \A P \in Persons :
             \A r1 \in Range(feed.stop_times) : \A r2 \in Range(feed.stop_times) :
                (/\ LaterInTrip(r1, r2)
                 /\ r1.stop_id = start_stop[P]
                 /\ r1.dep_sec # NA
                 /\ r1.dep_sec >= T0
                 /\ r2.arr_sec # NA)
                => \E e \in pq[P] :
                      /\ e.info.mode = "RIDE"
                      /\ e.info.trip_id = r1.trip_id
                      /\ e.info.to_stop = r2.stop_id
                      /\ e.info.depart_sec = r1.dep_sec
                      /\ e.info.arrive_sec = r2.arr_sec

\* C16 witness: after a pop, a RIDE entry is queued whose trip has a row
\* without arrival between the boarding row and the destination row.
C16_Witness ==
    /\ popped.tag = "entry"
    /\ \E e \in RideEntries :
          \E r1 \in Range(feed.stop_times) : \E r \in Range(feed.stop_times) :
          \E r2 \in Range(feed.stop_times) :
             /\ LaterInTrip(r1, r) /\ LaterInTrip(r, r2)
             /\ r.arr_sec = NA
             /\ r1.trip_id = e.info.trip_id
             /\ r1.stop_id = e.info.from_stop
             /\ r2.stop_id = e.info.to_stop
             /\ r2.arr_sec = e.info.arrive_sec

\* The platforms of a station and the departures at or after T0 of a platform,
\* read from the rows of the feed.
Children(f, station) == {r.stop_id : r \in {x \in Range(f.stops) : StationOf(x) = station}}

FutureDeps(f, sid) ==
    {r.dep_sec : r \in {x \in Range(f.stop_times) :
                            x.stop_id = sid /\ x.dep_sec # NA /\ x.dep_sec >= T0}}

FirstChild(f, station) ==
    f.stops[CHOOSE i \in 1..Len(f.stops) :
               /\ StationOf(f.stops[i]) = station
               /\ \A j \in 1..(i - 1) : StationOf(f.stops[j]) # station].stop_id

\* C17: the seed of a person whose station is resolved is a child platform of the person's station with
\* the smallest departure >= T0 among the departures of all children; when no
\* child has one, it is the first child; in both cases seeding pushes a START
\* entry with elapsed 0 and arrival T0 for it.
C17_Seed ==
    \A P \in {Q \in Persons : station_id[Q] # ""} :
        LET ch == Children(feed, station_id[P])
            fut == UNION {FutureDeps(feed, c) : c \in ch}
        IN /\ start_stop[P] \in ch
           /\ IF fut # {}
              THEN \E d \in FutureDeps(feed, start_stop[P]) : \A d2 \in fut : d <= d2
              ELSE start_stop[P] = FirstChild(feed, station_id[P])
           /\ popped.tag = "init" =>
                 \E e \in pq[P] :
                    /\ e.info.mode = "START"
                    /\ e.accum = 0
                    /\ e.arr_time = T0
                    /\ e.dest_stop = start_stop[P]
                    /\ e.info.to_stop = start_stop[P]
                    /\ e.info.arrive_sec = T0

\* C17 witness: a person whose station has two platforms has been seeded at
\* the second of them, for its earlier departure, and has settled it, although
\* the first has departures before T0 and a later one after.
C17_Witness ==
    \E P \in Persons :
       /\ Cardinality(Children(feed, station_id[P])) >= 2
       /\ start_stop[P] # FirstChild(feed, station_id[P])
       /\ FutureDeps(feed, FirstChild(feed, station_id[P])) # {}
       /\ start_stop[P] \in visited_stops[P]

\* The fallback of C17 happens: a station with two platforms, none with a
\* departure at or after T0.
C17_FallbackHappens ==
    \E P \in Persons :
       /\ Cardinality(Children(feed, station_id[P])) >= 2
       /\ \A c \in Children(feed, station_id[P]) : FutureDeps(feed, c) = {}
       /\ start_stop[P] \in visited_stops[P]

\* The feeds that hold the rows of f, with the rows of stops.txt in any order.
StopsPermuted(f) ==
    {[f EXCEPT !.stops = [i \in 1..Len(f.stops) |-> f.stops[pi[i]]]] :
        pi \in Permutations(1..Len(f.stops))}

\* C18, for the first item of every person's step sequence: whatever the
\* order of the rows of stops.txt, every person is seeded at the same platform
\* (from which the record's "start ... at" line, and with all persons at one
\* station the meeting platform, are taken).
C18_OrderInsensitive ==
    \A f2 \in StopsPermuted(feed) : \A P \in {Q \in Persons : station_id[Q] # ""} :
        PickIn(BuildStationToPlatforms(f2), BuildRowsAtStop(f2), station_id[P], T0)
            = start_stop[P]

\* Scenario S2: A seeded at X1, B seeded at X2, an 86 s GEO walk each way, no
\* rides, and a cap that does not cut the walk.
IsS2 ==
    /\ feed = FeedWalk(<<>>, FALSE)
    /\ start_stop = <<"X1", "X2">>
    /\ max_trip_time_s >= 86

\* C19: the meeting platform is the destination of the entry popped last, and
\* no entry left in a frontier precedes that entry in (elapsed, arrival,
\* destination): the meeting is the first platform whose test fires in the
\* global key order; in scenario S2, where X1 and X2 both have a group maximum
\* of 86 s, the search ends with OK(X1), A elapsed 0, B elapsed 86 and meeting
\* time T0 + 86.
C19_TieBreak ==
    /\ Status = "OK" =>
          /\ popped.tag = "entry"
          /\ popped.dest_stop = meeting.stop
          /\ \A c \in AllEntries :
                \/ c[2].accum > popped.accum
                \/ /\ c[2].accum = popped.accum
                   /\ \/ c[2].arr_time > popped.info.arrive_sec
                      \/ /\ c[2].arr_time = popped.info.arrive_sec
                         /\ StopRank(c[2].dest_stop) >= StopRank(popped.dest_stop)
    /\ (IsS2 /\ pc = "done") =>
          /\ Status = "OK"
          /\ meeting.stop = "X1"
          /\ arrivals[1].elapsed = 0
          /\ arrivals[2].elapsed = 86
          /\ meet_time = T0 + 86
          /\ LeastElapsed(feed, "X1", "X2") = 86
          /\ LeastElapsed(feed, "X2", "X1") = 86

\* C19 witness: scenario S2 has ended with a meeting while the entry that
\* would have settled the other platform of the tie is still queued.
C19_Witness ==
    /\ IsS2
    /\ Status = "OK"
    /\ \E e \in pq[1] : e.dest_stop = "X2" /\ e.accum = popped.accum

\* Every person is seeded at the same platform.
AllAtOne == \A P \in Persons : start_stop[P] = start_stop[1]

\* The result of scenario S1 and of its variants.
MeetAtSeed ==
    /\ Status = "OK"
    /\ \A P \in Persons : start_stop[P] \in visited_stops[P]
    /\ meeting.stop = start_stop[1]
    /\ popped.info.mode = "START"
    /\ popped.S = NumPersons
    /\ \A P \in Persons : arrivals[P].elapsed = 0
    /\ meet_time = T0

\* C20 as stated: with all persons seeded at one platform the search ends
\* with OK at that platform, elapsed 0 for everyone and meeting time T0, in the
\* step in which the last person's START entry is popped, whatever leaves the
\* platform.
C20_Original == (AllAtOne /\ pc = "done") => MeetAtSeed

\* No ride boarded at sid at or after T0 gives an entry that precedes the
\* START entries in (elapsed, arrival, destination).
NoRideBeforeStart(f, sid) ==
    \A r1 \in Range(f.stop_times) : \A r2 \in Range(f.stop_times) :
        (/\ LaterInTrip(r1, r2)
         /\ r1.stop_id = sid
         /\ r1.dep_sec # NA
         /\ r1.dep_sec >= T0
         /\ r2.arr_sec # NA)
        => \/ r2.arr_sec > T0
           \/ r2.arr_sec = T0 /\ StopRank(r2.stop_id) >= StopRank(sid)

\* C20, amended: the same, unless a ride that leaves the platform at or after
\* T0 arrives before T0, or at T0 at a platform whose identifier sorts before
\* the seed's.
C20_SameSeed ==
    (AllAtOne /\ NoRideBeforeStart(feed, start_stop[1]) /\ pc = "done") => MeetAtSeed

\* C20 witness: all persons were seeded at a platform that walks and rides
\* leave, one of the rides arriving in the second of its departure, and the
\* search has ended.
C20_Witness ==
    /\ AllAtOne
    /\ NoRideBeforeStart(feed, start_stop[1])
    /\ pc = "done"
    /\ \E e \in pq[1] : e.info.mode = "WALK" /\ e.info.from_stop = start_stop[1]
    /\ \E e \in pq[1] : /\ e.info.mode = "RIDE"
                          /\ e.info.from_stop = start_stop[1]
                          /\ e.accum = 0

\* Some person's query matches no station name.
SomeUnresolved ==
    \E P \in Persons :
       \A st \in DOMAIN stationid_to_name : ~Contains(stationid_to_name[st], query[P])

\* C21: when the query of some person matches no station name, the
\* initialisation raises and the search never starts: nothing is popped,
\* settled or recorded, no step of the loop can be taken, and there is no
\* result OK, CAP or NONE; the persons after the failing one are not even
\* seeded.  When every query matches, the loop is entered.
C21_Unresolved ==
    /\ SomeUnresolved <=> pc = "error"
    /\ SomeUnresolved =>
          /\ Status = "ERROR"
          /\ ~ENABLED Next
          /\ popped.tag = "init"
          /\ meeting = NoMeeting
          /\ \A P \in Persons :
                /\ visited_stops[P] = {}
                /\ DOMAIN reached_stop_first[P] = {}
                /\ DOMAIN parent[P] = {}
                /\ P >= FirstUnresolved(query) => pq[P] = {}
    /\ ~SomeUnresolved =>
          \A P \in Persons :
             /\ station_id[P] \in DOMAIN stationid_to_name
             /\ Contains(stationid_to_name[station_id[P]], query[P])
             /\ \A st \in DOMAIN stationid_to_name :
                   Contains(stationid_to_name[st], query[P]) =>
                      ~StrLess(stationid_to_name[st], stationid_to_name[station_id[P]])

\* C21 witness: the second person's query matches nothing, after the first
\* person's query, a lower-case part of several names, has been resolved and
\* the person seeded.
C21_Witness ==
    /\ pc = "error"
    /\ FirstUnresolved(query) = 2
    /\ query[1] = <<"x">>
    /\ Cardinality({st \in DOMAIN stationid_to_name :
                       Contains(stationid_to_name[st], query[1])}) >= 2
    /\ station_id[1] = "X1"
    /\ pq[1] # {}

\* C22: no step of the loop raises: every settled platform is expanded in
\* full, and the loop ends only in OK, CAP or NONE.
C22_ExpansionTotal == pc # "raised"

\* Some platform can be reached by every person with elapsed <= the cap.
CommonWithinCap ==
    \E q \in PlatformIds(feed) : \A P \in Persons :
        /\ Reachable(feed, start_stop[P], q)
        /\ LeastElapsed(feed, start_stop[P], q) <= max_trip_time_s

\* When CAP is returned every entry left is above the cap and no platform is
\* settled by all persons.
CapLeavesNothing ==
    Status = "CAP" =>
        /\ \A c \in AllEntries : c[2].accum > max_trip_time_s
        /\ CommonReached(reached_stop_first) = {}
        /\ ~ \E q \in PlatformIds(feed) : \A P \in Persons : q \in visited_stops[P]

C24_GlobalOrder ==
    [][(pc = "loop" /\ popped'.tag = "entry") =>
          /\ \E e \in pq[popped'.S] :
                /\ e.accum = popped'.accum
                /\ e.dest_stop = popped'.dest_stop
                /\ e \notin pq'[popped'.S]
                /\ \A c \in AllEntries : e.accum <= c[2].accum
          /\ (NonNegativeDurations(feed) /\ popped.tag = "entry") =>
                popped'.accum >= popped.accum
      ]_vars

\* C24 witness: the last two global steps popped from different persons, the
\* later one a larger elapsed, while the other person's frontier holds more.
C24_Witness ==
    /\ popped.tag = "entry"
    /\ popped.accum > 0
    /\ NonNegativeDurations(feed)
    /\ \E P \in Persons \ {popped.S} :
          /\ pq[P] # {}
          /\ \E q \in DOMAIN reached_stop_first[P] :
                /\ reached_stop_first[P][q].elapsed > 0
                /\ reached_stop_first[P][q].elapsed <= popped.accum
    /\ pq[popped.S] # {}

\* The lexicographic order of (elapsed, arrival, destination, counter).
LexBefore(a, b) ==
    LET ka == <<a.accum, a.arr_time, StopRank(a.dest_stop), a.counter>>
        kb == <<b.accum, b.arr_time, StopRank(b.dest_stop), b.counter>>
    IN \E i \in 1..4 : /\ ka[i] < kb[i]
                       /\ \A j \in 1..(i - 1) : ka[j] = kb[j]

\* C25: the entry a step pops from a person's frontier precedes every other
\* entry of that frontier in the lexicographic order of (elapsed, arrival,
\* destination, counter), so entries equal in (elapsed, arrival, destination)
\* leave in the order of their counters, the order in which they were pushed;
\* no two entries of the frontiers agree on all four, so the comparison is
\* decided before it reaches the payloads.
C25_FrontierOrder ==
    /\ [](\A c \in AllEntries : \A d \in AllEntries :
             (c[2] # d[2]) =>
                <<c[2].accum, c[2].arr_time, c[2].dest_stop, c[2].counter>>
                   # <<d[2].accum, d[2].arr_time, d[2].dest_stop, d[2].counter>>)
    /\ [][\A S \in Persons : \A e \in pq[S] \ pq'[S] :
             \A d \in pq[S] \ {e} : LexBefore(e, d)]_vars

\* C25 witness: the entry popped last has left behind, in the same frontier,
\* an entry with the same elapsed, arrival and destination, pushed later.
C25_Witness ==
    /\ popped.tag = "entry"
    /\ popped.accum > 0
    /\ \E d \in pq[popped.S] :
          /\ d.accum = popped.accum
          /\ d.arr_time = popped.info.arrive_sec
          /\ d.dest_stop = popped.dest_stop

\* The (elapsed, arrival) pairs a person holds: frontier entries and
\* first-reached records.
Clocks(P) ==
    {<<e.accum, e.arr_time>> : e \in pq[P]}
    \cup {<<reached_stop_first[P][q].elapsed, reached_stop_first[P][q].arr_abs>> :
             q \in DOMAIN reached_stop_first[P]}

\* Two persons hold entries or records with equal elapsed and different
\* absolute arrival times.
C26_Divergent ==
    \E P \in Persons, Q \in Persons :
        /\ P # Q
        /\ \E x \in Clocks(P), y \in Clocks(Q) : x[1] = y[1] /\ x[2] # y[2]

\* C26 as stated: for some feed and some seeds of two persons, the entries the
\* two expansions can push include two with equal elapsed and different
\* absolute arrival times.
C26_Original ==
    \E f \in Feeds : \E s1 \in StopIds(f), s2 \in StopIds(f) :
        \E x \in PathEnds(f, s1, MaxPathLen), y \in PathEnds(f, s2, MaxPathLen) :
            x[3] = y[3] /\ x[2] # y[2]

\* C26, amended: the first component of every key is the accumulated elapsed
\* time, and every frontier entry and first-reached record of every person
\* has absolute arrival = T0 + elapsed, so two persons are never at different
\* absolute times after the same elapsed.
C26_SameClock ==
    /\ \A P \in Persons : \A x \in Clocks(P) : x[2] = T0 + x[1]
    /\ \A c \in AllEntries : c[2].arr_time = c[2].info.arrive_sec
    /\ ~C26_Divergent

\* C26 witness: two persons starting at different platforms hold records for
\* different platforms with the same positive elapsed.
C26_Witness ==
    /\ start_stop[1] # start_stop[2]
    /\ \E q1 \in DOMAIN reached_stop_first[1], q2 \in DOMAIN reached_stop_first[2] :
          /\ q1 # q2
          /\ reached_stop_first[1][q1].elapsed = reached_stop_first[2][q2].elapsed
          /\ reached_stop_first[1][q1].elapsed > 0

\* The pairs (row at platform p departing at or after t, later row of the same
\* trip with an arrival), read from the rows of the feed.
RidePairs(f, p, t) ==
    {rr \in Range(f.stop_times) \X Range(f.stop_times) :
        /\ rr[1].stop_id = p
        /\ rr[1].dep_sec # NA
        /\ rr[1].dep_sec >= t
        /\ LaterInTrip(rr[1], rr[2])
        /\ rr[2].arr_sec # NA}

\* Entry x is the RIDE entry of the pair rr for an expansion of p at time t
\* and elapsed e.
IsRideOf(x, rr, p, t, e) ==
    /\ x.info.mode = "RIDE"
    /\ x.info.trip_id = rr[1].trip_id
    /\ x.info.from_stop = p
    /\ x.info.to_stop = rr[2].stop_id
    /\ x.info.depart_sec = rr[1].dep_sec
    /\ x.info.arrive_sec = rr[2].arr_sec
    /\ x.info.wait_sec = rr[1].dep_sec - t
    /\ x.info.wait_sec >= 0
    /\ x.info.ride_sec = rr[2].arr_sec - rr[1].dep_sec
    /\ x.accum = e + x.info.wait_sec + x.info.ride_sec
    /\ x.arr_time = rr[2].arr_sec
    /\ x.dest_stop = rr[2].stop_id

\* The RIDE entries among `new` are, one for one, the entries of the pairs.
RidesExactly(new, f, p, t, e) ==
    LET rides == {x \in new : x.info.mode = "RIDE"}
    IN /\ \A rr \in RidePairs(f, p, t) :
             Cardinality({x \in rides : IsRideOf(x, rr, p, t, e)}) = 1
       /\ \A x \in rides : \E rr \in RidePairs(f, p, t) : IsRideOf(x, rr, p, t, e)

\* The step has settled a platform for popped'.S and expanded it in full.
Expanded ==
    /\ pc = "loop" /\ pc' = "loop"
    /\ popped'.tag = "entry"
    /\ popped'.dest_stop \notin visited_stops[popped'.S]

\* C27: an expansion of platform p at time t and elapsed e, at seeding or in a
\* step of the loop, pushes exactly one RIDE entry for every pair (row at p with
\* departure >= t, later row of the trip with an arrival), with key
\* (e + wait + ride, arr, platform of the later row), wait = dep - t >= 0 and
\* ride = arr - dep, and no other RIDE entry: none for a row at p whose
\* departure is before t or missing.
C27_Rides ==
    /\ [](popped.tag = "init" =>
             \A P \in Persons :
                station_id[P] # "" =>
                   RidesExactly(pq[P], feed, start_stop[P], T0, 0))
    /\ [][Expanded =>
             RidesExactly(pq'[popped'.S] \ pq[popped'.S], feed, popped'.dest_stop,
                          popped'.info.arrive_sec, popped'.accum)]_vars

\* C27 witness: a platform was expanded after T0 at which one trip had left
\* before the expansion and another was boarded after a wait.
C27_Witness ==
    /\ popped.tag = "entry"
    /\ popped.accum > 0
    /\ pc = "loop"
    /\ \E r \in Range(feed.stop_times) :
          /\ r.stop_id = popped.dest_stop
          /\ r.dep_sec # NA
          /\ r.dep_sec < popped.info.arrive_sec
    /\ \E x \in pq[popped.S] :
          /\ x.info.mode = "RIDE"
          /\ x.info.from_stop = popped.dest_stop
          /\ x.info.depart_sec > popped.info.arrive_sec
          /\ x.info.wait_sec > 0

\* The walking time of a straight line of d millimetres.
StraightWalk(d) == Max(30, CeilDiv(d, WALK_SPEED_MM_PER_S))

\* Platform q gets a GEO walk from p: q differs from p, lies within the
\* radius, the pair is not explicit, and the walk is not too long.
GeoDue(f, p, q) ==
    LET d == haversine_mm(LatIn(f, p), LatIn(f, q))
    IN /\ q # p
       /\ d <= MAX_WALK_RADIUS_MM
       /\ <<p, q>> \notin ExplicitPairs(f)
       /\ StraightWalk(d) <= MAX_WALK_TIME_S

\* Entry x is the GEO walk from p to q of an expansion at time t, elapsed e.
IsGeoOf(x, f, p, q, t, e) ==
    LET w == StraightWalk(haversine_mm(LatIn(f, p), LatIn(f, q)))
    IN /\ x.info.mode = "WALK"
       /\ x.info.source = "GEO"
       /\ x.info.from_stop = p
       /\ x.info.to_stop = q
       /\ x.info.walk_sec = w
       /\ x.accum = e + w
       /\ x.arr_time = t + w
       /\ x.dest_stop = q

\* The GEO entries among `new` are, one for one, the walks that are due.
GeoExactly(new, f, p, t, e) ==
    LET geo == {x \in new : x.info.source = "GEO"}
    IN /\ \A q \in StopIds(f) :
             Cardinality({x \in geo : x.info.to_stop = q}) =
                (IF GeoDue(f, p, q) THEN 1 ELSE 0)
       /\ \A x \in geo : \E q \in StopIds(f) : IsGeoOf(x, f, p, q, t, e)

\* C28: an expansion of platform p at time t and elapsed e, at seeding or in a
\* step of the loop, pushes a GEO walk to platform q exactly when q differs
\* from p, the straight-line distance d is at most MAX_WALK_RADIUS_M, the pair
\* (p, q) is not explicit and w = max(30, ceil(d / WALK_SPEED_MPS)) is at most
\* MAX_WALK_TIME_S; the entry has key (e + w, t + w, q) and there is one per q.
C28_GeoWalks ==
    /\ [](popped.tag = "init" =>
             \A P \in Persons :
                station_id[P] # "" =>
                   GeoExactly(pq[P], feed, start_stop[P], T0, 0))
    /\ [][Expanded =>
             GeoExactly(pq'[popped'.S] \ pq[popped'.S], feed, popped'.dest_stop,
                        popped'.info.arrive_sec, popped'.accum)]_vars

\* C28 witness: a platform reached by a GEO walk has been expanded; its
\* neighbour within the radius got the explicit walk of the pair and no GEO
\* walk, and another platform of the feed lies beyond the radius.
C28_Witness ==
    /\ popped.tag = "entry"
    /\ popped.accum > 0
    /\ pc = "loop"
    /\ popped.info.source = "GEO"
    /\ \E q \in StopIds(feed) \ {popped.dest_stop} :
          /\ <<popped.dest_stop, q>> \in ExplicitPairs(feed)
          /\ haversine_mm(LatIn(feed, popped.dest_stop), LatIn(feed, q)) <= MAX_WALK_RADIUS_MM
          /\ \E x \in pq[popped.S] :
                /\ x.info.source \in {"PATHWAYS", "TRANSFERS"}
                /\ x.info.from_stop = popped.dest_stop
                /\ x.info.to_stop = q
                /\ x.accum = popped.accum + x.info.walk_sec
          /\ ~ \E x \in pq[popped.S] :
                /\ x.info.source = "GEO"
                /\ x.info.from_stop = popped.dest_stop
                /\ x.info.to_stop = q
    /\ \E q \in StopIds(feed) :
          haversine_mm(LatIn(feed, popped.dest_stop), LatIn(feed, q)) > MAX_WALK_RADIUS_MM

\* C29: a global step that pops from person S changes only S's frontier,
\* visited set, predecessor map and first-reached map; every other person's
\* are unchanged, every entry pushed goes into S's own frontier, as an entry
\* of S leaving the platform just settled, and no step changes the walk-edge
\* table, the stop_times tables, the spatial index or any other table.
C29_Frame ==
    [][/\ UNCHANGED tables
       /\ \A P \in Persons :
             (popped'.tag # "entry" \/ P # popped'.S) =>
                /\ pq'[P] = pq[P]
                /\ visited_stops'[P] = visited_stops[P]
                /\ parent'[P] = parent[P]
                /\ reached_stop_first'[P] = reached_stop_first[P]
       /\ \A P \in Persons : \A x \in pq'[P] \ pq[P] :
             /\ popped'.tag = "entry"
             /\ P = popped'.S
             /\ x.info.owner = Labels[P]
             /\ x.info.from_stop = popped'.dest_stop
      ]_vars

\* C29 witness: the last step settled and expanded a platform for one person
\* while another person, who has not settled that platform, holds a frontier,
\* a visited set and a record of their own.
C29_Witness ==
    /\ popped.tag = "entry"
    /\ popped.accum > 0
    /\ \E x \in pq[popped.S] :
          x.info.from_stop = popped.dest_stop /\ x.accum > popped.accum
    /\ popped.dest_stop \in DOMAIN parent[popped.S]
    /\ \E P \in Persons \ {popped.S} :
          /\ pq[P] # {}
          /\ visited_stops[P] # {}
          /\ DOMAIN reached_stop_first[P] # {}
          /\ popped.dest_stop \notin visited_stops[P]

\* C30: every push takes a counter value above every value taken before: the
\* entries a step adds carry the values counter + 1 .. counter', one each, so
\* no two entries, in the same or in different frontiers, carry the same value
\* and none is above the counter.
C30_CounterUnique ==
    /\ [](\A c \in AllEntries :
             /\ c[2].counter >= 1
             /\ c[2].counter <= counter
             /\ \A d \in AllEntries : (c # d) => c[2].counter # d[2].counter)
    /\ [][LET new == UNION {pq'[P] \ pq[P] : P \in Persons}
          IN /\ counter' = counter + Cardinality(new)
             /\ {x.counter : x \in new} = (counter + 1)..counter'
      ]_vars

\* C30 witness: after a step that pushed at least two entries both persons
\* hold entries, and entries pushed earlier have been popped.
C30_Witness ==
    /\ popped.tag = "entry"
    /\ \A P \in Persons : pq[P] # {}
    /\ Cardinality({x \in pq[popped.S] : x.info.from_stop = popped.dest_stop
                                         /\ x.accum > popped.accum}) >= 2
    /\ counter > Cardinality(AllEntries) + 1

\* The sum of walk_sec, wait_sec and ride_sec over a list of actions.
RECURSIVE StepSum(_)
StepSum(path) ==
    IF path = <<>> THEN 0
    ELSE Head(path).walk_sec + Head(path).wait_sec + Head(path).ride_sec
         + StepSum(Tail(path))

\* reconstruct(S, p) returns a contiguous chain from S's seed to p whose
\* durations add up to the elapsed recorded for p; for the seed the chain is
\* empty and the record is (T0, 0).
ChainOf(S, p) ==
    LET r == reconstruct(S, p)
        path == r.path
    IN /\ r.ended
       /\ (p = start_stop[S]) =>
             /\ path = <<>>
             /\ reached_stop_first[S][p] = [arr_abs |-> T0, elapsed |-> 0]
       /\ (path # <<>>) =>
             /\ path[1].from_stop = start_stop[S]
             /\ path[Len(path)].to_stop = p
             /\ path[Len(path)].arrive_sec = reached_stop_first[S][p].arr_abs
       /\ (path = <<>>) => p = start_stop[S]
       /\ \A i \in 2..Len(path) :
             /\ path[i].from_stop = path[i - 1].to_stop
             /\ path[i].depart_sec >= path[i - 1].arrive_sec
       /\ StepSum(path) = reached_stop_first[S][p].elapsed

\* C31 as stated: for every person S and every platform p settled by S,
\* reconstruct(S, p) is a contiguous chain from the seed to p, each action
\* departing no earlier than the previous one arrives, whose walk, wait and
\* ride seconds add up to reached_stop_first[p].elapsed; the seed has the
\* empty chain and the record (T0, 0).
C31_Original ==
    \A S \in Persons : \A p \in visited_stops[S] : ChainOf(S, p)

\* C31, amended: the same for feeds in which no ride arrives before it
\* departs.
C31_Chain ==
    NonNegativeDurations(feed) =>
        \A S \in Persons : \A p \in visited_stops[S] : ChainOf(S, p)

\* C31 witness: a person has settled a platform over a chain of two actions,
\* a ride boarded after a wait among them.
C31_Witness ==
    /\ NonNegativeDurations(feed)
    /\ \E S \in Persons : \E p \in visited_stops[S] :
          LET path == reconstruct(S, p).path
          IN /\ Len(path) >= 2
             /\ \E i \in 1..Len(path) : path[i].mode = "RIDE" /\ path[i].wait_sec > 0
             /\ \E i \in 1..Len(path) : path[i].mode = "WALK"

\* The most frequent values of a sequence of values.
Modal(vals) ==
    {v \in Range(vals) :
        \A w \in Range(vals) :
            Cardinality({i \in 1..Len(vals) : vals[i] = w})
               <= Cardinality({i \in 1..Len(vals) : vals[i] = v})}

\* The rows of the platforms of a station, in file order.
ChildRows(f, st) == SelectSeq(f.stops, LAMBDA r : StationOf(r) = st)

\* C32: the display name of a station is the most frequent non-empty
\* stop_desc among its child platforms; only when no child has one is it the
\* most frequent non-empty stop_name, and only when neither exists is it the
\* first child's stop_id.
C32_DisplayName ==
    \A st \in DOMAIN stationid_to_name :
        LET g == ChildRows(feed, st)
            descs == SelectSeq([i \in 1..Len(g) |-> g[i].stop_desc], LAMBDA v : v # <<>>)
            names == SelectSeq([i \in 1..Len(g) |-> g[i].stop_name], LAMBDA v : v # <<>>)
        IN IF descs # <<>> THEN stationid_to_name[st] \in Modal(descs)
           ELSE IF names # <<>> THEN stationid_to_name[st] \in Modal(names)
           ELSE stationid_to_name[st] = Chars(g[1].stop_id)

\* ------------------------------------------------------------------------
\* The feed filters: src/utils/filter_gtfs.py, filter_gtfs_by_date.py and
\* filter_gtfs_by_date_time.py.  A date of the command line is
\* <<year, month, day>>, a date of a table the integer YYYYMMDD, a time of
\* day the fields <<HH, MM, SS>> of its text, and <<>> an empty time.

\* No --date on the command line.
NoDate == <<>>

\* yyyymmdd: "YYYY-MM-DD" to the YYYYMMDD of the tables.
yyyymmdd(datestr) == datestr[1] * 10000 + datestr[2] * 100 + datestr[3]

\* datetime.strptime(date_ymd, "%Y%m%d").
strptime(date_ymd) == <<date_ymd \div 10000, (date_ymd \div 100) % 100, date_ymd % 100>>

\* The days from 1970-01-01 to the date, in the Gregorian calendar.
DaysFromCivil(dt) ==
    LET y   == IF dt[2] <= 2 THEN dt[1] - 1 ELSE dt[1]
        era == y \div 400
        yoe == y - era * 400
        mp  == IF dt[2] > 2 THEN dt[2] - 3 ELSE dt[2] + 9
        doy == (153 * mp + 2) \div 5 + dt[3] - 1
        doe == yoe * 365 + yoe \div 4 - yoe \div 100 + doy
    IN era * 146097 + doe - 719468

\* dt.weekday(): 0 for a Monday ... 6 for a Sunday (1970-01-01 was a Thursday).
weekday(dt) == (DaysFromCivil(dt) + 3) % 7

\* Stand for the -10**12 and 10**12 of to_int_safe: below and above every date.
INT_SAFE_LOW == -1000000000
INT_SAFE_HIGH == 1000000000

\* to_int_safe(s, default): int(s), or the default for a field that is no number.
to_int_safe(s, default) == IF s = NA THEN default ELSE s

\* parse_hms_to_seconds: None (NA) for a text that is not HH:MM:SS.
parse_hms_to_seconds(hms) ==
    IF Len(hms) # 3 THEN NA ELSE hms[1] * 3600 + hms[2] * 60 + hms[3]

CalendarRow(service_id, days, start_date, end_date) ==
    [service_id |-> service_id, days |-> days, start_date |-> start_date, end_date |-> end_date]

CalendarDatesRow(service_id, date, exception_type) ==
    [service_id |-> service_id, date |-> date, exception_type |-> exception_type]

FilterTripRow(trip_id, route_id, service_id) ==
    [trip_id |-> trip_id, route_id |-> route_id, service_id |-> service_id]

FilterStopTimeRow(trip_id, stop_id, arrival_time, departure_time) ==
    [trip_id |-> trip_id, stop_id |-> stop_id,
     arrival_time |-> arrival_time, departure_time |-> departure_time]

FilterStopRow(stop_id) == [stop_id |-> stop_id, stop_lat |-> LatOf(stop_id)]

FromTo(from_stop_id, to_stop_id) == [from_stop_id |-> from_stop_id, to_stop_id |-> to_stop_id]

\* The column col of the rows, as a set.
Column(rows, col) == {rows[i][col] : i \in 1..Len(rows)}

\* monday ... sunday flags.
MonToFri == <<"1", "1", "1", "1", "1", "0", "0">>
MonOnly  == <<"1", "0", "0", "0", "0", "0", "0">>
TueOnly  == <<"0", "1", "0", "0", "0", "0", "0">>
Weekend  == <<"0", "0", "0", "0", "0", "1", "1">>

\* The dates of the runs: a Monday and the Tuesday after it.
Monday == <<2025, 11, 10>>
Tuesday == <<2025, 11, 11>>

\* calendar.txt of the input: none; one whose ranges start and end on the
\* dates of the runs; one in which nothing runs on them.
Calendars ==
    { <<>>,
      << CalendarRow("A", MonToFri, 20251101, 20251130),
         CalendarRow("B", TueOnly, 20251111, 20251130),
         CalendarRow("C", MonOnly, 20251103, 20251110) >>,
      << CalendarRow("A", MonOnly, 20251101, 20251109),
         CalendarRow("B", MonToFri, 20251112, 20251130),
         CalendarRow("C", Weekend, 20251101, 20251130) >> }

\* calendar_dates.txt of the input.
CalendarDates ==
    { <<>>,
      << CalendarDatesRow("B", 20251110, "1") >>,
      << CalendarDatesRow("A", 20251110, "2") >>,
      << CalendarDatesRow("C", 20251110, "1"), CalendarDatesRow("C", 20251110, "2") >>,
      << CalendarDatesRow("A", 20251111, "2"), CalendarDatesRow("C", 20251111, "1"),
         CalendarDatesRow("B", 20251112, "1") >> }

\* The input folder: stops X1, X2, X3 lie within 3 km of the centre, C1
\* within 5 km, N1 beyond.
GtfsInput(calendar, calendar_dates) ==
    [stops      |-> << FilterStopRow("X1"), FilterStopRow("X2"), FilterStopRow("X3"),
                       FilterStopRow("C1"), FilterStopRow("N1") >>,
     routes     |-> << [route_id |-> "R1"], [route_id |-> "R2"], [route_id |-> "R3"] >>,
     trips      |-> << FilterTripRow("T1", "R1", "A"), FilterTripRow("T2", "R2", "B"),
                       FilterTripRow("T3", "R3", "C"), FilterTripRow("T4", "R1", "A") >>,
     stop_times |-> << FilterStopTimeRow("T1", "X1", <<9, 50, 0>>, <<10, 0, 0>>),
                       FilterStopTimeRow("T1", "X2", <<10, 30, 0>>, <<10, 31, 0>>),
                       FilterStopTimeRow("T2", "X2", <<13, 59, 59>>, <<14, 0, 0>>),
                       FilterStopTimeRow("T2", "C1", <<14, 0, 0>>, <<14, 0, 0>>),
                       FilterStopTimeRow("T3", "X3", <<>>, <<10, 15, 0>>),
                       FilterStopTimeRow("T3", "C1", <<25, 10, 0>>, <<>>),
                       FilterStopTimeRow("T4", "C1", <<8, 0, 0>>, <<8, 0, 0>>),
                       FilterStopTimeRow("T4", "N1", <<9, 0, 0>>, <<9, 59, 59>>) >>,
     pathways   |-> << FromTo("X1", "X2"), FromTo("X1", "X3"), FromTo("X2", "C1"),
                       FromTo("C1", "N1") >>,
     transfers  |-> << FromTo("X2", "X1"), FromTo("X3", "X2"), FromTo("C1", "X1") >>,
     calendar   |-> calendar,
     calendar_dates |-> calendar_dates]

\* The folder with one more trip, on a route that routes.txt does not have.
WithStrayRoute(g) ==
    [g EXCEPT !.trips = Append(@, FilterTripRow("T5", "R9", "A")),
              !.stop_times = Append(@, FilterStopTimeRow("T5", "X1", <<11, 0, 0>>, <<11, 0, 0>>))]

GtfsInputs ==
    {GtfsInput(c, d) : c \in Calendars, d \in CalendarDates}
        \cup {WithStrayRoute(GtfsInput(c, <<>>)) : c \in Calendars}

\* --start and --end of the runs.
Windows ==
    { << <<10, 0, 0>>, <<14, 0, 0>> >>,
      << <<10, 0, 0>>, <<10, 30, 0>> >>,
      << <<25, 0, 0>>, <<26, 0, 0>> >>,
      << <<10, 0, 0>>, <<10, 0, 0>> >>,
      << <<14, 0, 0>>, <<10, 0, 0>> >> }

\* The command lines: --center (a latitude, in millidegrees), --radius_km,
\* --date, --start, --end.
CommandLines ==
    [center : {52520, 53000}, radius_km : {3, 5}, date : {NoDate, Monday, Tuesday},
     window : Windows]

\* What a run leaves: its exit status, the set of services it worked with,
\* and the tables it wrote.
Output(status, services, stops, stop_times, trips, routes, pathways, transfers) ==
    [status |-> status, services |-> services, stops |-> stops, stop_times |-> stop_times,
     trips |-> trips, routes |-> routes, pathways |-> pathways, transfers |-> transfers]

\* sys.exit(n) before anything is written.
Exit(n, services) == Output(n, services, <<>>, <<>>, <<>>, <<>>, <<>>, <<>>)

\* The rows of calendar.txt that run on the weekday of the date, within
\* their range.
CalOk(g, date_ymd) ==
    LET dow == weekday(strptime(date_ymd)) + 1
        ymd_i == date_ymd
    IN SelectSeq(g.calendar, LAMBDA r :
           /\ r.days[dow] = "1"
           /\ to_int_safe(r.start_date, INT_SAFE_LOW) <= ymd_i
           /\ to_int_safe(r.end_date, INT_SAFE_HIGH) >= ymd_i)

\* The rows of calendar_dates.txt for the date with the exception type.
DayRows(g, date_ymd, exception_type) ==
    SelectSeq(g.calendar_dates, LAMBDA r : r.date = date_ymd /\ r.exception_type = exception_type)

\* Mutant of active_service_ids_for_date: the removals are not applied.
active_service_ids_for_date_KeepRemoved(g, date_ymd) ==
    LET weekday_services == Column(CalOk(g, date_ymd), "service_id")
        additions == Column(DayRows(g, date_ymd, "1"), "service_id")
    IN (IF weekday_services # {} THEN weekday_services ELSE {}) \cup additions

\* active_service_ids_for_date of filter_gtfs_by_date.py.
active_service_ids_for_date(g, date_ymd) ==
    LET weekday_services == Column(CalOk(g, date_ymd), "service_id")
        additions == Column(DayRows(g, date_ymd, "1"), "service_id")
        removals  == Column(DayRows(g, date_ymd, "2"), "service_id")
    IN ((IF Cardinality(weekday_services) > 0 THEN weekday_services ELSE {})
            \cup additions) \ removals

\* active_service_ids_for_date of filter_gtfs_by_date_time.py.
active_service_ids_for_date_time(g, date_ymd) ==
    LET dow == weekday(strptime(date_ymd)) + 1
        ymd_i == date_ymd
        rows == SelectSeq(g.calendar, LAMBDA r :
                    /\ r.days[dow] = "1"
                    /\ to_int_safe(r.start_date, INT_SAFE_LOW) <= ymd_i
                    /\ to_int_safe(r.end_date, INT_SAFE_HIGH) >= ymd_i)
        weekday_services == Column(rows, "service_id")
        drows == SelectSeq(g.calendar_dates, LAMBDA r : r.date = date_ymd)
        additions == Column(SelectSeq(drows, LAMBDA r : r.exception_type = "1"), "service_id")
        removals  == Column(SelectSeq(drows, LAMBDA r : r.exception_type = "2"), "service_id")
    IN ((IF weekday_services # {} THEN weekday_services ELSE {}) \cup additions) \ removals

\* filter_gtfs.py, step 1: the stops within the radius of the centre.
stops_in_area(g, a) ==
    SelectSeq(g.stops, LAMBDA r : haversine_mm(a.center, r.stop_lat) <= a.radius_km * 1000000)

\* filter_gtfs.py, step 2: the services of the date: those added for it by
\* calendar_dates, and when there is none, those of calendar running on its
\* weekday within their range.  Empty without --date.
kept_service_ids(g, a) ==
    IF a.date = NoDate THEN {}
    ELSE LET date_filter == yyyymmdd(a.date)
             cal_dates == SelectSeq(g.calendar_dates, LAMBDA r :
                              r.date = date_filter /\ r.exception_type = "1")
             dow == weekday(strptime(date_filter)) + 1
             ymd == date_filter
             cal_ok == SelectSeq(g.calendar, LAMBDA r :
                           r.days[dow] = "1" /\ r.start_date <= ymd /\ r.end_date >= ymd)
         IN IF Column(cal_dates, "service_id") # {}
            THEN Column(cal_dates, "service_id")
            ELSE Column(cal_ok, "service_id")

\* Mutant of PairMask: one end among the used stops is enough.
PairMask_Either(r, used_stop_ids) ==
    r.from_stop_id \in used_stop_ids \/ r.to_stop_id \in used_stop_ids

\* filter_gtfs.py, step 10: the mask of the pathway and transfer rows.
PairMask(r, used_stop_ids) ==
    r.from_stop_id \in used_stop_ids /\ r.to_stop_id \in used_stop_ids

\* filter_gtfs.py, main.
filter_gtfs(g, a) ==
    LET kept_stop_ids == Column(stops_in_area(g, a), "stop_id")
        services == kept_service_ids(g, a)
        \* step 3: the stop_times rows at the kept stops
        st_all == SelectSeq(g.stop_times, LAMBDA r : r.stop_id \in kept_stop_ids)
        kept_trip_ids == Column(st_all, "trip_id")
        \* step 4
        trips_kept == SelectSeq(g.trips, LAMBDA r :
                          /\ r.trip_id \in kept_trip_ids
                          /\ (a.date # NoDate /\ Cardinality(services) > 0)
                                 => r.service_id \in services)
        kept_route_ids == Column(trips_kept, "route_id")
        final_kept_trip_ids == Column(trips_kept, "trip_id")
        st_final == SelectSeq(st_all, LAMBDA r : r.trip_id \in final_kept_trip_ids)
        used_stop_ids == Column(st_final, "stop_id")
        stops_final == SelectSeq(g.stops, LAMBDA r : r.stop_id \in used_stop_ids)
        routes_final == SelectSeq(g.routes, LAMBDA r : r.route_id \in kept_route_ids)
        pathways_final == SelectSeq(g.pathways, LAMBDA r : PairMask(r, used_stop_ids))
        transfers_final == SelectSeq(g.transfers, LAMBDA r : PairMask(r, used_stop_ids))
    IN IF kept_stop_ids = {} THEN Exit(2, {})
       ELSE IF trips_kept = <<>> THEN Exit(3, services)
       ELSE Output(0, services, stops_final, st_final, trips_kept, routes_final,
                   pathways_final, transfers_final)

\* filter_gtfs_by_date.py, main: all stops, pathways and transfers are kept.
filter_gtfs_by_date(g, a) ==
    LET date_ymd == yyyymmdd(a.date)
        svc_active == active_service_ids_for_date(g, date_ymd)
        trips_final == SelectSeq(g.trips, LAMBDA r : r.service_id \in svc_active)
        kept_trip_ids == Column(trips_final, "trip_id")
        kept_route_ids == Column(trips_final, "route_id")
        stop_times_final == SelectSeq(g.stop_times, LAMBDA r : r.trip_id \in kept_trip_ids)
        routes_final == SelectSeq(g.routes, LAMBDA r : r.route_id \in kept_route_ids)
    IN IF Cardinality(svc_active) = 0 THEN Exit(2, svc_active)
       ELSE IF Cardinality(kept_trip_ids) = 0 THEN Exit(3, svc_active)
       ELSE Output(0, svc_active, g.stops, stop_times_final, trips_final, routes_final,
                   g.pathways, g.transfers)

\* Mutant of InWindow: the end of the window is inside.
InWindow_Closed(t, start_s, end_s) == t # NA /\ t >= start_s /\ t <= end_s

\* notna & (t >= start_s) & (t < end_s) of in_window.
InWindow(t, start_s, end_s) == t # NA /\ t >= start_s /\ t < end_s

\* in_window: the arrival or the departure of the row is in [start_s, end_s).
in_window(r, start_s, end_s) ==
    \/ InWindow(parse_hms_to_seconds(r.arrival_time), start_s, end_s)
    \/ InWindow(parse_hms_to_seconds(r.departure_time), start_s, end_s)

\* filter_gtfs_by_date_time.py, main, with TRIM_STOP_TIMES = True.
filter_gtfs_by_date_time(g, a) ==
    LET date_ymd == yyyymmdd(a.date)
        start_s == parse_hms_to_seconds(a.window[1])
        end_s == parse_hms_to_seconds(a.window[2])
        svc_active == active_service_ids_for_date_time(g, date_ymd)
        trips_by_service == SelectSeq(g.trips, LAMBDA r : r.service_id \in svc_active)
        candidate_trip_ids == Column(trips_by_service, "trip_id")
        chunk == SelectSeq(g.stop_times, LAMBDA r : r.trip_id \in candidate_trip_ids)
        st_window == SelectSeq(chunk, LAMBDA r : in_window(r, start_s, end_s))
        trips_touching_window == Column(st_window, "trip_id")
        trips_final == SelectSeq(trips_by_service, LAMBDA r : r.trip_id \in trips_touching_window)
        kept_trip_ids == Column(trips_final, "trip_id")
        kept_route_ids == Column(trips_final, "route_id")
        stop_times_final == SelectSeq(st_window, LAMBDA r : r.trip_id \in kept_trip_ids)
        routes_final == SelectSeq(g.routes, LAMBDA r : r.route_id \in kept_route_ids)
    IN IF start_s = NA \/ end_s = NA THEN Exit(1, {})
       ELSE IF end_s <= start_s THEN Exit(1, {})
       ELSE IF Cardinality(svc_active) = 0 THEN Exit(2, svc_active)
       ELSE IF Cardinality(candidate_trip_ids) = 0 THEN Exit(3, svc_active)
       ELSE IF Cardinality(trips_touching_window) = 0 THEN Exit(4, svc_active)
       ELSE Output(0, svc_active, g.stops, stop_times_final, trips_final, routes_final,
                   g.pathways, g.transfers)

\* One run of one of the scripts on an input folder.  The meeting search
\* does not run: its variables keep the values they are given here.
FilterInit ==
    /\ gtfs \in GtfsInputs
    /\ args \in CommandLines
    /\ out = Exit(-1, {})
    /\ tool = "none"
    /\ feed = <<>>
    /\ stop_lat = <<>>
    /\ rows_at_stop = <<>>
    /\ trip_groups = <<>>
    /\ walk_edges = <<>>
    /\ provided_pairs = {}
    /\ grid = <<>>
    /\ station_to_platforms = <<>>
    /\ stationid_to_name = <<>>
    /\ max_trip_time_s = 0
    /\ query = <<>>
    /\ station_id = <<>>
    /\ start_stop = <<>>
    /\ pq = <<>>
    /\ visited_stops = <<>>
    /\ reached_stop_first = <<>>
    /\ parent = <<>>
    /\ counter = 0
    /\ popped = Popped("init", 0, 0, "", NoInfo)
    /\ next_progress_mark = 0
    /\ meeting = NoMeeting
    /\ pc = "idle"

RunFilterGtfs ==
    /\ tool = "none"
    /\ out' = filter_gtfs(gtfs, args)
    /\ tool' = "filter_gtfs"
    /\ UNCHANGED <<gtfs, args, search>>

\* --date is required.
RunFilterGtfsByDate ==
    /\ tool = "none"
    /\ args.date # NoDate
    /\ out' = filter_gtfs_by_date(gtfs, args)
    /\ tool' = "filter_gtfs_by_date"
    /\ UNCHANGED <<gtfs, args, search>>

\* --date is required.
RunFilterGtfsByDateTime ==
    /\ tool = "none"
    /\ args.date # NoDate
    /\ out' = filter_gtfs_by_date_time(gtfs, args)
    /\ tool' = "filter_gtfs_by_date_time"
    /\ UNCHANGED <<gtfs, args, search>>

FilterNext == RunFilterGtfs \/ RunFilterGtfsByDate \/ RunFilterGtfsByDateTime

FilterSpec == FilterInit /\ [][FilterNext]_vars

\* ---------------------------------------------------------------- C33

\* The services whose calendar row has the weekday of the date set to 1 and
\* the date within its range.
RunsOn(g, date_ymd) ==
    {r.service_id : r \in
        {c \in Range(g.calendar) :
            /\ c.days[weekday(strptime(date_ymd)) + 1] = "1"
            /\ c.start_date <= date_ymd
            /\ date_ymd <= c.end_date}}

\* The services with a calendar_dates row for the date of the exception type.
ExceptionsOn(g, date_ymd, exception_type) ==
    {r.service_id : r \in
        {c \in Range(g.calendar_dates) :
            c.date = date_ymd /\ c.exception_type = exception_type}}

\* A run that has computed the active services of its date.
ComputedActive ==
    /\ tool \in {"filter_gtfs_by_date", "filter_gtfs_by_date_time"}
    /\ out.status # 1

\* C33: active_service_ids_for_date returns exactly the services running on
\* the date by calendar, together with those added for the date by
\* calendar_dates, without those removed for the date by calendar_dates; a
\* service both added and removed on the date is not active; and the copy of
\* the date filter and the copy of the date-time filter return the same set
\* on every input.
C33_ActiveServices ==
    /\ ComputedActive =>
          LET ymd == yyyymmdd(args.date)
          IN /\ out.services = (RunsOn(gtfs, ymd) \cup ExceptionsOn(gtfs, ymd, "1"))
                                   \ ExceptionsOn(gtfs, ymd, "2")
             /\ \A sv \in ExceptionsOn(gtfs, ymd, "1") \cap ExceptionsOn(gtfs, ymd, "2") :
                   sv \notin out.services
    /\ (tool # "idle" /\ args.date # NoDate) =>
          active_service_ids_for_date(gtfs, yyyymmdd(args.date))
              = active_service_ids_for_date_time(gtfs, yyyymmdd(args.date))

\* The date filter has run on a date for which a service running by calendar
\* is both added and removed, another service stays active, and a third is
\* not active at all.
C33_Witness ==
    /\ tool = "filter_gtfs_by_date"
    /\ LET ymd == yyyymmdd(args.date)
       IN /\ \E sv \in RunsOn(gtfs, ymd) :
                /\ sv \in ExceptionsOn(gtfs, ymd, "1") \cap ExceptionsOn(gtfs, ymd, "2")
                /\ sv \notin out.services
          /\ out.services # {}
          /\ Column(gtfs.trips, "service_id") \ out.services # {}

\* ---------------------------------------------------------------- C34

\* The services active on the date: added for it by calendar_dates, or
\* running on its weekday within their calendar range.
ActiveOn(g, date_ymd) == ExceptionsOn(g, date_ymd, "1") \cup RunsOn(g, date_ymd)

\* The trips of the input with a stop_times row at a stop within the radius.
TripsInArea(g, a) ==
    SelectSeq(g.trips, LAMBDA t :
        \E r \in Range(g.stop_times) :
            /\ r.trip_id = t.trip_id
            /\ \E sr \in Range(g.stops) :
                  /\ sr.stop_id = r.stop_id
                  /\ haversine_mm(a.center, sr.stop_lat) <= a.radius_km * 1000000)

\* filter_gtfs has run and has written its output.
FilterGtfsWrote == tool = "filter_gtfs" /\ out.status = 0

\* C34: when filter_gtfs is run with --date, every trip written to trips.txt
\* has a service_id that is active on that date (added for the date by
\* calendar_dates, or else running on the date's weekday within the calendar
\* range); without --date only the spatial filter is applied.
C34_DateFilter ==
    FilterGtfsWrote =>
       IF args.date # NoDate
       THEN \A t \in Range(out.trips) : t.service_id \in ActiveOn(gtfs, yyyymmdd(args.date))
       ELSE out.trips = TripsInArea(gtfs, args)

\* What the date filter of filter_gtfs does guarantee: the written trips
\* have an active service whenever some service is active on the date, and
\* without --date the trips of the area are written.
C34_WhenSomeServiceRuns ==
    FilterGtfsWrote =>
       IF args.date # NoDate
       THEN ActiveOn(gtfs, yyyymmdd(args.date)) # {} =>
               \A t \in Range(out.trips) : t.service_id \in ActiveOn(gtfs, yyyymmdd(args.date))
       ELSE out.trips = TripsInArea(gtfs, args)

\* ---------------------------------------------------------------- C35

\* The time of day is present and lies in [start_s, end_s).
HalfOpen(hms, start_s, end_s) ==
    /\ hms # <<>>
    /\ start_s <= hms[1] * 3600 + hms[2] * 60 + hms[3]
    /\ hms[1] * 3600 + hms[2] * 60 + hms[3] < end_s

\* The time of day is present and is exactly sec.
IsAt(hms, sec) == hms # <<>> /\ hms[1] * 3600 + hms[2] * 60 + hms[3] = sec

\* C35: in the output of filter_gtfs_by_date_time (TRIM_STOP_TIMES true),
\* every written stop_times row belongs to a written trip and has its
\* arrival or its departure in [start, end), a time equal to end being
\* outside; every written trip has a service active on the date and at least
\* one written stop_times row; and a run with end <= start is rejected
\* before anything is filtered or written.
C35_Window ==
    tool = "filter_gtfs_by_date_time" =>
       LET start_s == parse_hms_to_seconds(args.window[1])
           end_s == parse_hms_to_seconds(args.window[2])
           ymd == yyyymmdd(args.date)
       IN /\ end_s <= start_s => out = Exit(1, {})
          /\ out.status = 0 =>
                /\ \A r \in Range(out.stop_times) :
                      /\ r.trip_id \in Column(out.trips, "trip_id")
                      /\ \/ HalfOpen(r.arrival_time, start_s, end_s)
                         \/ HalfOpen(r.departure_time, start_s, end_s)
                      /\ ~ (IsAt(r.arrival_time, end_s) /\ IsAt(r.departure_time, end_s))
                /\ \A t \in Range(out.trips) :
                      /\ t.service_id \in (RunsOn(gtfs, ymd) \cup ExceptionsOn(gtfs, ymd, "1"))
                                             \ ExceptionsOn(gtfs, ymd, "2")
                      /\ \E r \in Range(out.stop_times) : r.trip_id = t.trip_id

\* The date-time filter has written an output in which a row departing
\* exactly at start is kept, a row of a written trip that arrives exactly at
\* end and departs later is trimmed, and a trip of an active service that
\* does not touch the window is dropped.
C35_Witness ==
    /\ tool = "filter_gtfs_by_date_time"
    /\ out.status = 0
    /\ LET start_s == parse_hms_to_seconds(args.window[1])
           end_s == parse_hms_to_seconds(args.window[2])
       IN /\ \E r \in Range(out.stop_times) :
                IsAt(r.departure_time, start_s) /\ ~ HalfOpen(r.arrival_time, start_s, end_s)
          /\ \E r \in Range(gtfs.stop_times) :
                /\ r.trip_id \in Column(out.trips, "trip_id")
                /\ IsAt(r.arrival_time, end_s)
                /\ r \notin Range(out.stop_times)
          /\ \E t \in Range(gtfs.trips) :
                /\ t.service_id \in out.services
                /\ t \notin Range(out.trips)

\* ---------------------------------------------------------------- C36

\* The folder is referentially intact: the stop_times rows name stops and
\* trips of the folder, the trips name routes of the folder, and the
\* pathways and transfers join stops of the folder.
Intact(g) ==
    /\ Column(g.stop_times, "stop_id") \subseteq Column(g.stops, "stop_id")
    /\ Column(g.stop_times, "trip_id") \subseteq Column(g.trips, "trip_id")
    /\ Column(g.trips, "route_id") \subseteq Column(g.routes, "route_id")
    /\ \A r \in Range(g.pathways) \cup Range(g.transfers) :
          {r.from_stop_id, r.to_stop_id} \subseteq Column(g.stops, "stop_id")

====
